---- MODULE Spec2Model ----
(***************************************************************************)
(* A model of apidouble: the recording proxy (src/core/server.ts,          *)
(* src/core/proxy-engine.ts), its request matcher, its chaos gate and its  *)
(* two storage backings (src/storage/lowdb.adapter.ts,                     *)
(* src/storage/sqlite.adapter.ts).                                         *)
(*                                                                         *)
(* Spec         the server: construction, start/stop, custom routes, mode  *)
(*              switches and the per-request pipeline.                     *)
(* SpecStorage  one storage instance driven through its own API.           *)
(* SpecJournal  LowDBStorage with calls in flight and flushes that fail.   *)
(* SpecMatcher  RequestMatcher applied to requests and entry lists.        *)
(***************************************************************************)
EXTENDS Integers, Sequences, FiniteSets, TLC

VARIABLES
  \* ---- storage instance (LowDBStorage / SQLiteStorage) ----
  storageType,   \* config.storage.type: "lowdb" | "sqlite"
  dbOpen,        \* this.db !== null
  lowEntries,    \* LowDBStorage: db.data.entries, in array order
  sqlRows,       \* SQLiteStorage: the rows of table entries, in rowid order
  now,           \* Date.now()
  op,            \* the last storage API call and what it returned
  journal,       \* LowDBStorage: the JSON file and the writes db.write() has queued
  \* ---- ApiDouble ----
  cfgMode,       \* this.config.mode
  cfgTarget,     \* this.config.target
  isRunning,     \* this.isRunning
  customRoutes,  \* this.customRoutes, in Map insertion order
  stack,         \* the Express stack behind the admin handlers
  engines,       \* every ProxyEngine constructed so far; this.engine is the last
  chaos,         \* the ChaosEngine
  lastSwitch,    \* the mode of the last switch POST /__mode accepted, if it stands
  calls,         \* how often start() and route() were called
  \* ---- the request in flight ----
  pc,            \* where the request is in the pipeline
  req,           \* the incoming request
  cur,           \* what has happened to the request so far
  nreq,          \* requests accepted so far
  \* ---- RequestMatcher ----
  matching,      \* a call of findMatch / findAllMatches: its arguments and result
  \* ---- ChaosEngine and Interceptor driven through their own API ----
  applied,       \* the last call on the ChaosEngine and what it returned
  interceptor,   \* an Interceptor: this.rules in Map order, this.ruleCounter, the last call
  \* ---- HotReloadService ----
  reloader       \* watcher, debounceTimer, stats, the timeouts and reloads pending

storageVars == <<storageType, dbOpen, lowEntries, sqlRows, now, op, journal>>
serverVars ==
  <<cfgMode, cfgTarget, isRunning, customRoutes, stack, engines, chaos, lastSwitch, calls>>
requestVars == <<pc, req, cur, nreq>>
matcherVars == <<matching>>
componentVars == <<applied, interceptor, reloader>>
vars == <<storageVars, serverVars, requestVars, matcherVars, componentVars>>

(***************************************************************************)
(* Bounds of the model.                                                    *)
(***************************************************************************)
MaxEntries == 2     \* entries a storage instance holds
MaxTime == 1        \* milliseconds the clock advances
MaxRequests == 2    \* requests the server accepts
MaxStarts == 2      \* calls of start() that construct an engine
MaxRoutes == 1      \* calls of route()
MaxCalls == 3       \* save, delete and clear calls on the file-journal storage
MaxList == 2        \* entries handed to the matcher in one call

\* Math.random().toString(36).substring(2, 9): the suffixes the model draws
RndSuffixes == {0, 1}

(***************************************************************************)
(* Values: bodies, maps, JSON text.                                        *)
(***************************************************************************)
\* A body is undefined (absent), a string, null, or an object whose keys are
\* kept in insertion order with their values as JSON scalars.
Absent == [tag |-> "absent", str |-> "", obj |-> <<>>]
Null == [tag |-> "null", str |-> "", obj |-> <<>>]
Str(s) == [tag |-> "str", str |-> s, obj |-> <<>>]
Obj(pairs) == [tag |-> "obj", str |-> "", obj |-> pairs]

EmptyMap == <<>>

\* The order in which the model writes the keys of a map into JSON text.
KeyOrder ==
  <<"content-type", "content-length", "transfer-encoding", "content-encoding",
    "Content-Length", "set-cookie", "x-api-key", "page">>

Quote(s) == "\"" \o s \o "\""

RECURSIVE PairsText(_)
PairsText(pairs) ==
  IF pairs = <<>> THEN ""
  ELSE Quote(pairs[1][1]) \o ":" \o pairs[1][2]
       \o (IF Len(pairs) > 1 THEN "," ELSE "") \o PairsText(Tail(pairs))

\* JSON.stringify(value) for a defined value
JSONstringify(v) ==
  CASE v.tag = "str" -> Quote(v.str)
    [] v.tag = "null" -> "null"
    [] v.tag = "obj" -> "{" \o PairsText(v.obj) \o "}"

\* The bodies that occur in the model; JSON.parse inverts JSON.stringify on them.
BodyUniverse ==
  { Null, Str(""), Str("hello"),
    Obj(<<>>), Obj(<< <<"a", "1">> >>), Obj(<< <<"v", "1">> >>), Obj(<< <<"v", "2">> >>),
    Obj(<< <<"name", "\"x\"">> >>) }

JSONparses(text) == \E v \in BodyUniverse : JSONstringify(v) = text
JSONparse(text) == CHOOSE v \in BodyUniverse : JSONstringify(v) = text

\* JSON.stringify(map) / JSON.parse of it, for Record<string, string>
MapText(m) ==
  LET keys == SelectSeq(KeyOrder, LAMBDA k : k \in DOMAIN m)
  IN [i \in 1..Len(keys) |-> <<keys[i], Quote(m[keys[i]])>>]

Unquote(q) == CHOOSE s \in {"", "1", "5", "7", "9", "secret", "chunked", "gzip", "a=1, b=2",
                           "application/json", "text/plain"} : Quote(s) = q

MapOfText(pairs) ==
  [k \in {pairs[i][1] : i \in DOMAIN pairs} |->
     Unquote(pairs[CHOOSE i \in DOMAIN pairs : pairs[i][1] = k][2])]

(***************************************************************************)
(* Records (src/types/index.ts).                                           *)
(***************************************************************************)
\* generateId(): `${Date.now()}-${random suffix}`
generateId(t, rnd) == <<t, rnd>>

RequestRecord(id, method, path, query, headers, body, ts) ==
  [id |-> id, method |-> method, url |-> <<path, query>>, path |-> path,
   query |-> query, headers |-> headers, body |-> body, timestamp |-> ts]

ResponseRecord(status, headers, body, ts) ==
  [status |-> status, headers |-> headers, body |-> body, timestamp |-> ts]

RecordedEntry(id, request, response, createdAt) ==
  [id |-> id, request |-> request, response |-> response, createdAt |-> createdAt]

\* null, as find / findById return it
NoEntry == [none |-> TRUE]

\* the places of a sequence, and a sequence without one of its places
RemoveAt(seq, i) == [j \in 1..(Len(seq) - 1) |-> IF j < i THEN seq[j] ELSE seq[j + 1]]

(***************************************************************************)
(* LowDBStorage (src/storage/lowdb.adapter.ts): entries is db.data.entries *)
(***************************************************************************)
LowSave(entries, request, response, id, t) ==
  Append(entries, RecordedEntry(id, request, response, t))

\* Array.prototype.find: the first element, in array order, that satisfies it
LowFind(entries, request) ==
  LET hits == {i \in DOMAIN entries :
                 /\ entries[i].request.method = request.method
                 /\ entries[i].request.path = request.path}
  IN IF hits = {} THEN NoEntry
     ELSE entries[CHOOSE i \in hits : \A j \in hits : i <= j]

LowFindById(entries, id) ==
  LET hits == {i \in DOMAIN entries : entries[i].id = id}
  IN IF hits = {} THEN NoEntry
     ELSE entries[CHOOSE i \in hits : \A j \in hits : i <= j]

LowList(entries) == entries

\* a plausible fault: splice(index) without the count drops the rest of the array
LowDeleteSpliceToEnd(entries, id) ==
  LET hits == {i \in DOMAIN entries : entries[i].id = id}
  IN IF hits = {} THEN <<FALSE, entries>>
     ELSE <<TRUE, SubSeq(entries, 1, (CHOOSE i \in hits : \A j \in hits : i <= j) - 1)>>

\* findIndex + splice(index, 1); the result is <<deleted, entries>>
LowDelete(entries, id) ==
  LET hits == {i \in DOMAIN entries : entries[i].id = id}
  IN IF hits = {} THEN <<FALSE, entries>>
     ELSE <<TRUE, RemoveAt(entries, CHOOSE i \in hits : \A j \in hits : i <= j)>>

LowClear(entries) == <<>>

LowCount(entries) == Len(entries)

(***************************************************************************)
(* SQLiteStorage (src/storage/sqlite.adapter.ts): rows is table entries in *)
(* rowid order                                                             *)
(***************************************************************************)
SqlNull == [null |-> TRUE, text |-> ""]
SqlText(t) == [null |-> FALSE, text |-> t]
\* a column read in a JavaScript condition: NULL and '' are falsy
Truthy(col) == ~col.null /\ col.text # ""

\* the bound parameters of the INSERT
RowOf(id, request, response, createdAt) ==
  [id |-> id,
   request_method |-> request.method,
   request_url |-> request.url,
   request_path |-> request.path,
   request_query |-> MapText(request.query),
   request_headers |-> MapText(request.headers),
   request_body |-> IF request.body.tag # "absent"
                    THEN SqlText(JSONstringify(request.body)) ELSE SqlNull,
   request_timestamp |-> request.timestamp,
   response_status |-> response.status,
   response_headers |-> MapText(response.headers),
   response_body |-> IF response.body.tag # "absent"
                     THEN SqlText(JSONstringify(response.body)) ELSE SqlNull,
   response_timestamp |-> response.timestamp,
   created_at |-> createdAt]

rowToEntry(row) ==
  [id |-> row.id,
   request |->
     [id |-> row.id,
      method |-> row.request_method,
      url |-> row.request_url,
      path |-> row.request_path,
      query |-> MapOfText(row.request_query),
      headers |-> MapOfText(row.request_headers),
      body |-> IF Truthy(row.request_body)
               THEN JSONparse(row.request_body.text) ELSE Absent,
      timestamp |-> row.request_timestamp],
   response |->
     [status |-> row.response_status,
      headers |-> MapOfText(row.response_headers),
      body |-> IF Truthy(row.response_body)
               THEN JSONparse(row.response_body.text) ELSE Absent,
      timestamp |-> row.response_timestamp],
   createdAt |-> row.created_at]

\* id TEXT PRIMARY KEY: the INSERT of a present id throws
SqlCanInsert(rows, id) == \A i \in DOMAIN rows : rows[i].id # id

SqlSave(rows, request, response, id, t) ==
  Append(rows, RowOf(id, request, response, t))

\* WHERE request_method = ? AND request_path = ?
\* ORDER BY created_at DESC, rowid DESC LIMIT 1
SqlFind(rows, request) ==
  LET hits == {i \in DOMAIN rows :
                 /\ rows[i].request_method = request.method
                 /\ rows[i].request_path = request.path}
      first == CHOOSE i \in hits : \A j \in hits :
                 \/ rows[j].created_at < rows[i].created_at
                 \/ (rows[j].created_at = rows[i].created_at /\ j <= i)
  IN IF hits = {} THEN NoEntry ELSE rowToEntry(rows[first])

SqlFindById(rows, id) ==
  LET hits == {i \in DOMAIN rows : rows[i].id = id}
  IN IF hits = {} THEN NoEntry ELSE rowToEntry(rows[CHOOSE i \in hits : TRUE])

\* The orders of the places 1..n
Perms(n) ==
  {p \in [1..n -> 1..n] : \A i, j \in 1..n : i # j => p[i] # p[j]}

\* SELECT * FROM entries ORDER BY created_at DESC: rows of one created_at come
\* in an order SQL leaves to the query plan, so every such order is an outcome
SqlListOutcomes(rows) ==
  {[i \in DOMAIN rows |-> rowToEntry(rows[p[i]])] :
     p \in {q \in Perms(Len(rows)) :
              \A i, j \in DOMAIN rows :
                 i < j => rows[q[i]].created_at >= rows[q[j]].created_at}}

\* DELETE FROM entries WHERE id = ?; the result is <<changes > 0, rows>>
SqlDelete(rows, id) ==
  <<\E i \in DOMAIN rows : rows[i].id = id,
    SelectSeq(rows, LAMBDA r : r.id # id)>>

SqlClear(rows) == <<>>

SqlCount(rows) == Len(rows)

(***************************************************************************)
(* The storage instance behind the Storage interface (src/storage/base.ts) *)
(***************************************************************************)
\* The JSON file of LowDBStorage and the writes db.write() has queued: lowdb
\* writes one snapshot at a time, in the order of the calls.  saved, removed,
\* failed and calls are not fields of the program: they record which saves
\* resolved, which entries delete() and clear() removed, whether a flush failed,
\* and how many mutating calls were made.
NewJournal(entries) ==
  [file |-> entries, queue |-> <<>>, saved |-> {}, removed |-> {}, failed |-> FALSE,
   calls |-> 0]

\* await db.write() that succeeds with nothing else in flight
Flushed(entries) ==
  IF storageType = "lowdb" THEN [journal EXCEPT !.file = entries] ELSE journal

\* no call of the matcher
NoMatching == [none |-> TRUE]

\* no call on the ChaosEngine yet, and an Interceptor without rules
NoCall == [call |-> "none"]
NewInterceptor == [rules |-> <<>>, ruleCounter |-> 0, call |-> "none"]

\* new HotReloadService(config).  debounceTimer is 0 for null, or the handle
\* setTimeout returned; timers holds the handles of the timeouts that are
\* scheduled and neither fired nor cleared; loading counts the calls of
\* reload() that await loadConfigFile; closing says that stop() awaits
\* watcher.close().  changes, bursts, started, cancelled, invoked, stopped
\* and late are not fields of the program: they count the change events,
\* those that arrived with no timeout scheduled, the calls of reload(), the
\* timeouts stop() cleared and the calls of onReload, and remember that
\* stop() has resolved with no start() since and that onReload was invoked
\* in that condition.
NewHotReload ==
  [watcher |-> "null", debounceTimer |-> 0, timers |-> {}, loading |-> 0,
   closing |-> FALSE,
   stats |-> [watching |-> FALSE, reloadCount |-> 0],
   changes |-> 0, bursts |-> 0, started |-> 0, cancelled |-> 0, invoked |-> 0,
   stopped |-> FALSE, late |-> FALSE]

\* getDb(): 'Storage not initialized. Call init() first.' when this.db is null
NotInitialized == [kind |-> "throw", message |-> "Storage not initialized"]

\* a plausible fault: getDb() opens the database again instead of throwing
getDbReopens == FALSE

\* getDb() throws: this.db is null before init() and after close()
getDbThrows == ~dbOpen

\* list(): the lists the call can return
StorageList ==
  IF storageType = "lowdb" THEN {LowList(lowEntries)} ELSE SqlListOutcomes(sqlRows)

StorageFind(request) ==
  IF storageType = "lowdb" THEN LowFind(lowEntries, request) ELSE SqlFind(sqlRows, request)

StorageFindById(id) ==
  IF storageType = "lowdb" THEN LowFindById(lowEntries, id) ELSE SqlFindById(sqlRows, id)

StorageCount ==
  IF storageType = "lowdb" THEN LowCount(lowEntries) ELSE SqlCount(sqlRows)

\* save(request, response) with the id generateId() returned: whether it
\* resolves, and the storage after it
SaveResolves(id) ==
  ~getDbThrows /\ (storageType = "sqlite" => SqlCanInsert(sqlRows, id))

SavedLow(request, response, id) ==
  IF storageType = "lowdb" /\ SaveResolves(id)
  THEN LowSave(lowEntries, request, response, id, now) ELSE lowEntries

SavedSql(request, response, id) ==
  IF storageType = "sqlite" /\ SaveResolves(id)
  THEN SqlSave(sqlRows, request, response, id, now) ELSE sqlRows

\* save(request, response) whose write to the file fails: LowDBStorage has
\* pushed the entry onto db.data.entries before db.write() rejects
WriteFailedLow(request, response, id) ==
  IF storageType = "lowdb" /\ ~getDbThrows
  THEN LowSave(lowEntries, request, response, id, now) ELSE lowEntries

\* the ids of the stored entries
StoredIds ==
  IF storageType = "lowdb" THEN {lowEntries[i].id : i \in DOMAIN lowEntries}
  ELSE {sqlRows[i].id : i \in DOMAIN sqlRows}

(***************************************************************************)
(* SpecStorage: one storage instance and the calls of its API.             *)
(***************************************************************************)
StPaths == {<<"api", "users">>, <<"first">>}

\* requests and responses handed to save(): a client-assigned id, a body that is
\* absent, null or an object
StRequests ==
  {RequestRecord(<<0, 9>>, "GET", p, EmptyMap, EmptyMap, Absent, 0) : p \in StPaths}
  \cup {RequestRecord(<<0, 9>>, "POST", <<"api", "users">>, "page" :> "1",
                      "x-api-key" :> "secret", Obj(<< <<"name", "\"x\"">> >>), 0),
        RequestRecord(<<0, 8>>, "POST", <<"api", "users">>, EmptyMap, EmptyMap, Null, 0)}

StResponses ==
  {ResponseRecord(200, "content-type" :> "application/json", Obj(<< <<"v", "1">> >>), 0),
   ResponseRecord(200, "content-type" :> "application/json", Obj(<< <<"v", "2">> >>), 0),
   ResponseRecord(204, EmptyMap, Absent, 0)}

\* the server of a storage-only run: constructed, never started
ServerIdle ==
  /\ cfgMode = "mock" /\ cfgTarget = "none" /\ isRunning = FALSE
  /\ customRoutes = <<>> /\ stack = <<>> /\ engines = <<>>
  /\ chaos = [enabled |-> FALSE]
  /\ lastSwitch = "none" /\ calls = [start |-> 0, route |-> 0]
  /\ pc = "idle" /\ req = [none |-> TRUE] /\ cur = [none |-> TRUE] /\ nreq = 0

StInitial ==
  /\ storageType \in {"lowdb", "sqlite"}
  /\ dbOpen = FALSE
  /\ lowEntries = <<>>
  /\ sqlRows = <<>>
  /\ now = 0
  /\ op = [kind |-> "none"]
  /\ journal = NewJournal(<<>>)
  /\ matching = NoMatching
  /\ applied = NoCall /\ interceptor = NewInterceptor /\ reloader = NewHotReload
  /\ ServerIdle

\* init()
StInit ==
  /\ dbOpen' = TRUE
  /\ lowEntries' = IF storageType = "lowdb" THEN journal.file ELSE lowEntries
  /\ op' = [kind |-> "init"]
  /\ UNCHANGED <<storageType, sqlRows, now, journal>>
  /\ UNCHANGED <<serverVars, requestVars, matcherVars, componentVars>>

\* save(request, response)
StSave ==
  \E request \in StRequests, response \in StResponses, rnd \in RndSuffixes :
    LET id == generateId(now, rnd) IN
    /\ StorageCount < MaxEntries
    /\ lowEntries' = SavedLow(request, response, id)
    /\ sqlRows' = SavedSql(request, response, id)
    /\ op' = IF getDbThrows THEN NotInitialized
             ELSE IF ~SaveResolves(id)
             THEN [kind |-> "throw", message |-> "UNIQUE constraint failed: entries.id"]
             ELSE [kind |-> "save", request |-> request, response |-> response,
                   id |-> id]
    /\ journal' = Flushed(lowEntries')
    /\ UNCHANGED <<storageType, dbOpen, now>>
    /\ UNCHANGED <<serverVars, requestVars, matcherVars, componentVars>>

\* delete(id), of a stored id or of one that is not stored
StDelete ==
  \E id \in StoredIds \cup {<<0, 7>>} :
    /\ lowEntries' = IF storageType = "lowdb" /\ ~getDbThrows
                     THEN LowDelete(lowEntries, id)[2] ELSE lowEntries
    /\ sqlRows' = IF storageType = "sqlite" /\ ~getDbThrows
                  THEN SqlDelete(sqlRows, id)[2] ELSE sqlRows
    /\ op' = IF getDbThrows THEN NotInitialized
             ELSE [kind |-> "delete", id |-> id,
                   deleted |-> IF storageType = "lowdb" THEN LowDelete(lowEntries, id)[1]
                               ELSE SqlDelete(sqlRows, id)[1]]
    /\ journal' = Flushed(lowEntries')
    /\ UNCHANGED <<storageType, dbOpen, now>>
    /\ UNCHANGED <<serverVars, requestVars, matcherVars, componentVars>>

\* clear()
StClear ==
  /\ lowEntries' = IF storageType = "lowdb" /\ ~getDbThrows
                   THEN LowClear(lowEntries) ELSE lowEntries
  /\ sqlRows' = IF storageType = "sqlite" /\ ~getDbThrows
                THEN SqlClear(sqlRows) ELSE sqlRows
  /\ op' = IF getDbThrows THEN NotInitialized ELSE [kind |-> "clear"]
  /\ journal' = Flushed(lowEntries')
  /\ UNCHANGED <<storageType, dbOpen, now>>
  /\ UNCHANGED <<serverVars, requestVars, matcherVars, componentVars>>

\* find(request), findById(id), list() and count()
StRead ==
  \E call \in {"find", "findById", "list", "count"} :
    /\ op' = IF getDbThrows THEN NotInitialized
             ELSE [kind |-> "read", call |-> call, count |-> StorageCount]
    /\ UNCHANGED <<storageType, dbOpen, lowEntries, sqlRows, now, journal>>
    /\ UNCHANGED <<serverVars, requestVars, matcherVars, componentVars>>

\* SQLiteStorage.close()
StClose ==
  /\ storageType = "sqlite"
  /\ dbOpen
  /\ dbOpen' = FALSE
  /\ op' = [kind |-> "close"]
  /\ UNCHANGED <<storageType, lowEntries, sqlRows, now, journal>>
  /\ UNCHANGED <<serverVars, requestVars, matcherVars, componentVars>>

\* a millisecond passes (not within the synchronous run from the chaos gate to
\* the handler, where it changes nothing)
Tick ==
  /\ now < MaxTime
  /\ pc # "routing"
  /\ now' = now + 1
  /\ UNCHANGED <<storageType, dbOpen, lowEntries, sqlRows, op, journal>>
  /\ UNCHANGED <<serverVars, requestVars, matcherVars, componentVars>>

StNext == StInit \/ StSave \/ StDelete \/ StClear \/ StRead \/ StClose \/ Tick

SpecStorage == StInitial /\ [][StNext]_vars

(***************************************************************************)
(* Claims about the storage contract.                                      *)
(***************************************************************************)
\* the stored entries, in the order they were created
StoredEntries ==
  IF storageType = "lowdb" THEN lowEntries
  ELSE [i \in DOMAIN sqlRows |-> rowToEntry(sqlRows[i])]

SameMethodPath(request) ==
  {i \in DOMAIN StoredEntries :
     /\ StoredEntries[i].request.method = request.method
     /\ StoredEntries[i].request.path = request.path}

\* C7: on either backing, find(req) returns an entry with req's method and
\* path that no other such entry was created after, and null when there is no
\* entry with that method and path.
C7_FindReturnsMostRecent ==
  dbOpen =>
    \A request \in StRequests :
      LET found == StorageFind(request)
          same == SameMethodPath(request)
      IN IF same = {} THEN found = NoEntry
         ELSE /\ \E i \in same : StoredEntries[i] = found
              /\ \A i \in same : StoredEntries[i].createdAt <= found.createdAt

\* C8: on either backing, after any sequence of save, delete and clear,
\* list() returns exactly the stored entries, and none of them ahead of an
\* entry created later.
C8_ListMostRecentFirst ==
  dbOpen =>
    \A l \in StorageList :
      /\ Len(l) = Len(StoredEntries)
      /\ \E p \in Perms(Len(l)) : \A i \in DOMAIN l : l[i] = StoredEntries[p[i]]
      /\ \A i, j \in DOMAIN l : i < j => l[i].createdAt >= l[j].createdAt

\* C10: on either backing, findById(save(r, s).id) is an entry whose request
\* is r in every field, its own id and an absent body included, and whose
\* response is s.
C10_SaveFindByIdRoundTrip ==
  op.kind = "save" =>
    LET found == StorageFindById(op.id)
    IN /\ found # NoEntry
       /\ found.request = op.request
       /\ found.response = op.response

\* C11: a storage operation invoked while the database is not open (before
\* init() on either backing, after close() on SQLite) fails with 'Storage not
\* initialized', leaves the database closed and creates, changes or removes
\* no entry.
C11_ClosedStorageFails ==
  [][(~dbOpen /\ op'.kind # "init") =>
       /\ ~dbOpen'
       /\ lowEntries' = lowEntries
       /\ sqlRows' = sqlRows
       /\ op' # op => op' = NotInitialized]_vars

\* an operation failed on a SQLite storage that was closed with rows in it
C11_Witness ==
  storageType = "sqlite" /\ ~dbOpen /\ sqlRows # <<>> /\ op = NotInitialized

\* C12: no two entries of one storage instance share an id, whenever
\* generateId() was called, the same millisecond included.
C12_IdsDistinct ==
  \A i, j \in DOMAIN StoredEntries :
    i # j => StoredEntries[i].id # StoredEntries[j].id

(***************************************************************************)
(* SpecJournal: LowDBStorage after init(), with calls in flight.  save,    *)
(* delete and clear change db.data.entries synchronously and then await    *)
(* db.write(); the write is queued behind the writes of earlier calls and  *)
(* flushes the entries as they were when it was called, or fails.          *)
(***************************************************************************)
JRequest == RequestRecord(<<0, 9>>, "GET", <<"api", "users">>, EmptyMap, EmptyMap, Absent, 0)
JResponse == ResponseRecord(200, EmptyMap, Obj(<< <<"v", "1">> >>), 0)

JInitial ==
  /\ storageType = "lowdb"
  /\ dbOpen = TRUE
  /\ lowEntries = <<>>
  /\ sqlRows = <<>>
  /\ now = 0
  /\ op = [kind |-> "init"]
  /\ journal = NewJournal(<<>>)
  /\ matching = NoMatching
  /\ applied = NoCall /\ interceptor = NewInterceptor /\ reloader = NewHotReload
  /\ ServerIdle

\* db.write() called with the entries as they are now
Queued(call, before, after, entry) ==
  Append(journal.queue, [call |-> call, before |-> before, data |-> after, entry |-> entry])

\* save(request, response) up to its await
JSave ==
  \E rnd \in RndSuffixes :
    LET id == generateId(now, rnd)
        after == LowSave(lowEntries, JRequest, JResponse, id, now)
    IN /\ journal.calls < MaxCalls
       /\ Len(lowEntries) < MaxEntries
       /\ lowEntries' = after
       /\ journal' = [journal EXCEPT
                        !.queue = Queued("save", lowEntries, after, after[Len(after)]),
                        !.calls = @ + 1]
       /\ op' = [kind |-> "pending"]
       /\ UNCHANGED <<storageType, dbOpen, sqlRows, now>>
       /\ UNCHANGED <<serverVars, requestVars, matcherVars, componentVars>>

\* delete(id) up to its await, or to its return when the id is not stored
JDelete ==
  \E id \in StoredIds \cup {<<0, 7>>} :
    LET result == LowDelete(lowEntries, id) IN
    /\ journal.calls < MaxCalls
    /\ lowEntries' = result[2]
    /\ journal' = IF result[1]
                  THEN [journal EXCEPT
                          !.queue = Queued("delete", lowEntries, result[2], NoEntry),
                          !.removed = @ \cup {lowEntries[i] : i \in
                                                {j \in DOMAIN lowEntries :
                                                   lowEntries[j].id = id}},
                          !.calls = @ + 1]
                  ELSE [journal EXCEPT !.calls = @ + 1]
    /\ op' = IF result[1] THEN [kind |-> "pending"]
             ELSE [kind |-> "delete", id |-> id, deleted |-> FALSE]
    /\ UNCHANGED <<storageType, dbOpen, sqlRows, now>>
    /\ UNCHANGED <<serverVars, requestVars, matcherVars, componentVars>>

\* clear() up to its await
JClear ==
  /\ journal.calls < MaxCalls
  /\ lowEntries' = LowClear(lowEntries)
  /\ journal' = [journal EXCEPT
                   !.queue = Queued("clear", lowEntries, LowClear(lowEntries), NoEntry),
                   !.removed = @ \cup {lowEntries[i] : i \in DOMAIN lowEntries},
                   !.calls = @ + 1]
  /\ op' = [kind |-> "pending"]
  /\ UNCHANGED <<storageType, dbOpen, sqlRows, now>>
  /\ UNCHANGED <<serverVars, requestVars, matcherVars, componentVars>>

\* the oldest queued write reaches the file and its call resolves
JFlush ==
  /\ journal.queue # <<>>
  /\ LET write == Head(journal.queue) IN
     /\ journal' = [journal EXCEPT
                      !.file = write.data,
                      !.queue = Tail(@),
                      !.saved = IF write.call = "save" THEN @ \cup {write.entry} ELSE @]
     /\ op' = [kind |-> write.call, entry |-> write.entry]
  /\ UNCHANGED <<storageType, dbOpen, lowEntries, sqlRows, now>>
  /\ UNCHANGED <<serverVars, requestVars, matcherVars, componentVars>>

\* the oldest queued write fails and its call rejects; alone says that no
\* other call was in flight
JFlushFails ==
  /\ journal.queue # <<>>
  /\ LET write == Head(journal.queue) IN
     /\ journal' = [journal EXCEPT !.queue = Tail(@), !.failed = TRUE]
     /\ op' = [kind |-> "throw", message |-> "write failed", call |-> write.call,
               before |-> write.before, alone |-> Len(journal.queue) = 1]
  /\ UNCHANGED <<storageType, dbOpen, lowEntries, sqlRows, now>>
  /\ UNCHANGED <<serverVars, requestVars, matcherVars, componentVars>>

\* list(), count() and find(request), which do not await
JRead ==
  /\ op' = [kind |-> "read", list |-> LowList(lowEntries), count |-> LowCount(lowEntries),
            find |-> LowFind(lowEntries, JRequest)]
  /\ UNCHANGED <<storageType, dbOpen, lowEntries, sqlRows, now, journal>>
  /\ UNCHANGED <<serverVars, requestVars, matcherVars, componentVars>>

JNext == JSave \/ JDelete \/ JClear \/ JFlush \/ JFlushFails \/ JRead \/ Tick

SpecJournal == JInitial /\ [][JNext]_vars

\* C13: when the flush of a save, delete or clear fails and no other call is
\* in flight, the entries in memory, which list(), count() and find report,
\* are the entries from before the call.
C13_FailedFlushRestoresMemory ==
  (op.kind = "throw" /\ op.message = "write failed" /\ op.alone) =>
    lowEntries = op.before

\* C14: once every call has completed, every entry whose save resolved and
\* that no delete or clear removed is in list() and in the file, and count()
\* is the length of list(), whatever the interleaving.
C14_NoLostUpdate ==
  journal.queue = <<>> =>
    /\ \A entry \in journal.saved \ journal.removed :
         /\ \E i \in DOMAIN LowList(lowEntries) : LowList(lowEntries)[i] = entry
         /\ \E i \in DOMAIN journal.file : journal.file[i] = entry
    /\ LowCount(lowEntries) = Len(LowList(lowEntries))

\* two saves and the delete of the first were in flight together, all have
\* completed, and the second entry is listed and in the file
C14_Witness ==
  /\ journal.queue = <<>> /\ journal.calls = 3 /\ ~journal.failed
  /\ journal.removed # {} /\ journal.saved \ journal.removed # {}
  /\ lowEntries # <<>> /\ journal.file = lowEntries

(***************************************************************************)
(* RequestMatcher (src/generators/faker.service.ts).  Scores are fractions *)
(* of tenths in the code; the model keeps them as whole multiples of       *)
(* 1/ScoreScale, which is exact for up to three keys or segments.          *)
(***************************************************************************)
ScoreScale == 6

DEFAULT_IGNORED_HEADERS ==
  {"authorization", "cookie", "x-request-id", "x-correlation-id", "date",
   "user-agent", "host", "content-length", "connection", "accept-encoding"}

\* String.prototype.toLowerCase on the header names of the model
toLowerCase(k) ==
  CASE k = "Content-Length" -> "content-length"
    [] k = "Authorization" -> "authorization"
    [] k = "COOKIE" -> "cookie"
    [] k = "User-Agent" -> "user-agent"
    [] OTHER -> k

\* /^\d+$/, a UUID, 24 hex digits or 21 url-safe characters
looksLikeId(segment) ==
  segment \in {"1", "2", "42", "507f1f77bcf86cd799439011",
               "123e4567-e89b-12d3-a456-426614174000"}

\* a plausible fault: smart matching takes an ID-like request segment for a
\* wildcard whatever the recorded segment is
matchPathOneSided(requestPath, recordedPath, strategy) ==
  IF requestPath = recordedPath THEN [matches |-> TRUE, score |-> 100 * ScoreScale]
  ELSE IF Len(requestPath) # Len(recordedPath) THEN [matches |-> FALSE, score |-> 0]
  ELSE LET matchedSegments ==
             Cardinality({i \in DOMAIN requestPath :
                            \/ requestPath[i] = recordedPath[i]
                            \/ looksLikeId(requestPath[i])})
       IN [matches |-> matchedSegments = Len(requestPath),
           score |-> IF strategy = "fuzzy"
                     THEN (matchedSegments * 80 * ScoreScale) \div Len(requestPath)
                     ELSE 90 * ScoreScale]

\* a plausible fault: fuzzy matching accepts a path of which only some
\* segments match
matchPathFuzzyPartial(requestPath, recordedPath, strategy) ==
  IF requestPath = recordedPath THEN [matches |-> TRUE, score |-> 100 * ScoreScale]
  ELSE IF Len(requestPath) # Len(recordedPath) THEN [matches |-> FALSE, score |-> 0]
  ELSE IF strategy = "fuzzy"
  THEN LET matchedSegments ==
             Cardinality({i \in DOMAIN requestPath :
                            \/ requestPath[i] = recordedPath[i]
                            \/ looksLikeId(requestPath[i])})
       IN [matches |-> matchedSegments > 0,
           score |-> (matchedSegments * 80 * ScoreScale) \div Len(requestPath)]
  ELSE IF \A i \in DOMAIN requestPath :
            \/ requestPath[i] = recordedPath[i]
            \/ (looksLikeId(requestPath[i]) /\ looksLikeId(recordedPath[i]))
       THEN [matches |-> TRUE, score |-> 90 * ScoreScale]
       ELSE [matches |-> FALSE, score |-> 0]

\* a plausible fault: smart matching without the check of the segment counts
matchPathSmartPrefix(requestPath, recordedPath, strategy) ==
  IF requestPath = recordedPath THEN [matches |-> TRUE, score |-> 100 * ScoreScale]
  ELSE IF strategy = "fuzzy"
  THEN IF Len(requestPath) # Len(recordedPath) THEN [matches |-> FALSE, score |-> 0]
       ELSE LET matchedSegments ==
                  Cardinality({i \in DOMAIN requestPath :
                                 \/ requestPath[i] = recordedPath[i]
                                 \/ looksLikeId(requestPath[i])})
            IN [matches |-> matchedSegments = Len(requestPath),
                score |-> (matchedSegments * 80 * ScoreScale) \div Len(requestPath)]
  ELSE IF \A i \in DOMAIN requestPath :
            /\ i \in DOMAIN recordedPath
            /\ \/ requestPath[i] = recordedPath[i]
               \/ (looksLikeId(requestPath[i]) /\ looksLikeId(recordedPath[i]))
       THEN [matches |-> TRUE, score |-> 90 * ScoreScale]
       ELSE [matches |-> FALSE, score |-> 0]

\* matchPath(requestPath, recordedPath, strategy): paths are their segments
matchPath(requestPath, recordedPath, strategy) ==
  IF requestPath = recordedPath THEN [matches |-> TRUE, score |-> 100 * ScoreScale]
  ELSE IF Len(requestPath) # Len(recordedPath) THEN [matches |-> FALSE, score |-> 0]
  ELSE IF strategy = "fuzzy"
  THEN LET matchedSegments ==
             Cardinality({i \in DOMAIN requestPath :
                            \/ requestPath[i] = recordedPath[i]
                            \/ looksLikeId(requestPath[i])})
       IN [matches |-> matchedSegments = Len(requestPath),
           score |-> (matchedSegments * 80 * ScoreScale) \div Len(requestPath)]
  ELSE IF \A i \in DOMAIN requestPath :
            \/ requestPath[i] = recordedPath[i]
            \/ (looksLikeId(requestPath[i]) /\ looksLikeId(recordedPath[i]))
       THEN [matches |-> TRUE, score |-> 90 * ScoreScale]
       ELSE [matches |-> FALSE, score |-> 0]

\* matchQueryParams with the default ignoreQueryParams, []
matchQueryParams(requestQuery, recordedQuery) ==
  LET reqKeys == DOMAIN requestQuery
      recKeys == DOMAIN recordedQuery
      matchedCount ==
        Cardinality({k \in reqKeys : k \in recKeys /\ requestQuery[k] = recordedQuery[k]})
      totalKeys == Cardinality(reqKeys \cup recKeys)
  IN IF reqKeys = {} /\ recKeys = {} THEN 0
     ELSE (matchedCount * 50 * ScoreScale) \div totalKeys

\* a plausible fault: the ignored names are looked up without lower-casing
filterHeadersCaseSensitive(headers) ==
  LET kept == {k \in DOMAIN headers : k \notin DEFAULT_IGNORED_HEADERS}
  IN [l \in {toLowerCase(k) : k \in kept} |->
        headers[CHOOSE k \in kept : toLowerCase(k) = l]]

\* filterHeaders: drop the ignored names, lower-case the others
filterHeaders(headers) ==
  LET kept == {k \in DOMAIN headers : toLowerCase(k) \notin DEFAULT_IGNORED_HEADERS}
  IN [l \in {toLowerCase(k) : k \in kept} |->
        headers[CHOOSE k \in kept : toLowerCase(k) = l]]

matchHeaders(requestHeaders, recordedHeaders) ==
  LET reqHeaders == filterHeaders(requestHeaders)
      recHeaders == filterHeaders(recordedHeaders)
      reqKeys == DOMAIN reqHeaders
      recKeys == DOMAIN recHeaders
      matchedCount ==
        Cardinality({k \in reqKeys : k \in recKeys /\ reqHeaders[k] = recHeaders[k]})
      totalKeys == Cardinality(reqKeys \cup recKeys)
  IN IF reqKeys = {} /\ recKeys = {} THEN 0
     ELSE (matchedCount * 30 * ScoreScale) \div totalKeys

\* Object.keys of a body that is an object
BodyKeys(body) == {body.obj[i][1] : i \in DOMAIN body.obj}

matchBody(requestBody, recordedBody) ==
  IF requestBody.tag = "absent" \/ recordedBody.tag = "absent" THEN 0
  ELSE IF JSONstringify(requestBody) = JSONstringify(recordedBody) THEN 50 * ScoreScale
  ELSE IF requestBody.tag = "obj" /\ recordedBody.tag = "obj"
  THEN LET reqKeys == BodyKeys(requestBody)
           recKeys == BodyKeys(recordedBody)
           commonKeys == reqKeys \cap recKeys
           most == IF Cardinality(reqKeys) >= Cardinality(recKeys)
                   THEN Cardinality(reqKeys) ELSE Cardinality(recKeys)
       IN IF commonKeys # {}
          THEN (Cardinality(commonKeys) * 30 * ScoreScale) \div most ELSE 0
  ELSE 0

\* calculateMatch: null, or the entry with its score and what matched
NoMatch == [none |-> TRUE]

\* a plausible fault: the method is compared under the exact strategy only
calculateMatchAnyMethod(request, entry, strategy) ==
  LET recorded == entry.request
      pathMatch == IF strategy = "exact"
                   THEN [matches |-> request.path = recorded.path,
                         score |-> 100 * ScoreScale]
                   ELSE matchPath(request.path, recorded.path, strategy)
  IN IF strategy = "exact" /\ request.method # recorded.method THEN NoMatch
     ELSE IF ~pathMatch.matches THEN NoMatch
     ELSE [entry |-> entry, score |-> 100 * ScoreScale + pathMatch.score,
           matchedBy |-> <<"method", "path">>]

calculateMatch(request, entry, strategy) ==
  LET recorded == entry.request
      pathMatch == IF strategy = "exact"
                   THEN [matches |-> request.path = recorded.path,
                         score |-> 100 * ScoreScale]
                   ELSE matchPath(request.path, recorded.path, strategy)
      queryScore == matchQueryParams(request.query, recorded.query)
      headerScore == IF strategy \in {"smart", "fuzzy"}
                     THEN matchHeaders(request.headers, recorded.headers) ELSE 0
      bodyScore == IF request.method \in {"POST", "PUT", "PATCH"}
                   THEN matchBody(request.body, recorded.body) ELSE 0
  IN IF request.method # recorded.method THEN NoMatch
     ELSE IF ~pathMatch.matches THEN NoMatch
     ELSE [entry |-> entry,
           score |-> 100 * ScoreScale + pathMatch.score + queryScore + headerScore
                     + bodyScore,
           matchedBy |-> <<"method", "path">>
                         \o (IF queryScore > 0 THEN <<"query">> ELSE <<>>)
                         \o (IF headerScore > 0 THEN <<"headers">> ELSE <<>>)
                         \o (IF bodyScore > 0 THEN <<"body">> ELSE <<>>)]

\* a plausible fault: a sort that puts the later of two equal scores first
RECURSIVE SortByScoreLastWins(_)
SortByScoreLastWins(results) ==
  IF results = <<>> THEN <<>>
  ELSE LET best == CHOOSE i \in DOMAIN results :
                     /\ \A j \in DOMAIN results : results[j].score <= results[i].score
                     /\ \A j \in DOMAIN results :
                          results[j].score = results[i].score => j <= i
       IN <<results[best]>> \o SortByScoreLastWins(RemoveAt(results, best))

\* Array.prototype.sort((a, b) => b.score - a.score): stable, highest score first
RECURSIVE SortByScore(_)
SortByScore(results) ==
  IF results = <<>> THEN <<>>
  ELSE LET best == CHOOSE i \in DOMAIN results :
                     /\ \A j \in DOMAIN results : results[j].score <= results[i].score
                     /\ \A j \in DOMAIN results :
                          results[j].score = results[i].score => i <= j
       IN <<results[best]>> \o SortByScore(RemoveAt(results, best))

findAllMatches(request, entries, strategy) ==
  LET results == [i \in DOMAIN entries |-> calculateMatch(request, entries[i], strategy)]
  IN SortByScore(SelectSeq(results, LAMBDA r : r # NoMatch))

findMatch(request, entries, strategy) ==
  IF entries = <<>> THEN NoEntry
  ELSE LET matches == findAllMatches(request, entries, strategy)
       IN IF matches = <<>> THEN NoEntry ELSE matches[1].entry

(***************************************************************************)
(* SpecMatcher: one call of the matcher on a request and a list of         *)
(* recorded entries, and the same call on a twin that differs from it in   *)
(* ignored headers only.                                                   *)
(***************************************************************************)
Strategies == {"exact", "smart", "fuzzy"}

MGet(path, query, headers) ==
  RequestRecord(<<0, 9>>, "GET", path, query, headers, Absent, 0)

MWithBody(method, body) ==
  RequestRecord(<<0, 9>>, method, <<"api", "users">>, EmptyMap, EmptyMap, body, 0)

\* the requests matched and the requests recorded: paths with and without
\* ID-like segments, a query, headers, and bodies that are absent, null, a
\* string, and objects of the same members in two orders
MRequests ==
  { MGet(<<"api", "users">>, EmptyMap, EmptyMap),
    MGet(<<"api", "users", "42">>, EmptyMap, EmptyMap),
    MGet(<<"api", "users", "1">>, EmptyMap, EmptyMap),
    MGet(<<"api", "users", "profile">>, EmptyMap, EmptyMap),
    MGet(<<"api">>, EmptyMap, EmptyMap),
    MGet(<<"api", "users">>, "page" :> "1", EmptyMap),
    MGet(<<"api", "users">>, EmptyMap, ("x-api-key" :> "secret") @@ ("user-agent" :> "curl")),
    MWithBody("POST", Absent),
    MWithBody("POST", Null),
    MWithBody("POST", Str("hello")),
    MWithBody("POST", Obj(<< <<"a", "1">> >>)),
    MWithBody("POST", Obj(<< <<"a", "1">>, <<"b", "2">> >>)),
    MWithBody("POST", Obj(<< <<"b", "2">>, <<"a", "1">> >>)),
    MWithBody("DELETE", Obj(<< <<"a", "1">> >>)) }

MLists == UNION {[1..n -> MRequests] : n \in 0..MaxList}

MResponse == ResponseRecord(200, EmptyMap, Obj(<< <<"v", "1">> >>), 0)

\* the entries recorded from a list of requests; the second part of an id is
\* the entry's place in the list
EntriesOf(recorded) ==
  [i \in DOMAIN recorded |-> RecordedEntry(generateId(0, i), recorded[i], MResponse, 0)]

\* the request with an Authorization header added and its user-agent changed
TwinRequest(request) ==
  LET headers == request.headers
      changed == [k \in DOMAIN headers |->
                    IF k = "user-agent" THEN "other" ELSE headers[k]]
  IN [request EXCEPT !.headers = changed @@ ("Authorization" :> "token")]

\* the entries with a COOKIE header added to every recorded request
TwinEntries(entries) ==
  [i \in DOMAIN entries |->
     [entries[i] EXCEPT !.request.headers = @ @@ ("COOKIE" :> "c=1")]]

MInitial ==
  /\ storageType = "lowdb" /\ dbOpen = FALSE /\ lowEntries = <<>> /\ sqlRows = <<>>
  /\ now = 0 /\ op = [kind |-> "none"] /\ journal = NewJournal(<<>>)
  /\ ServerIdle
  /\ applied = NoCall /\ interceptor = NewInterceptor /\ reloader = NewHotReload
  /\ \E request \in MRequests, recorded \in MLists, strategy \in Strategies,
        tweak \in {"none", "request", "entries"} :
       matching =
         [request |-> request, entries |-> EntriesOf(recorded), strategy |-> strategy,
          twin |-> [request |-> IF tweak = "request" THEN TwinRequest(request)
                                ELSE request,
                    entries |-> IF tweak = "entries" THEN TwinEntries(EntriesOf(recorded))
                                ELSE EntriesOf(recorded)],
          call |-> "none", result |-> <<>>, twinResult |-> <<>>]

\* the call has returned result, and the same call on the twin twinResult
Returned(call, result, twinResult) ==
  [matching EXCEPT !.call = call, !.result = result, !.twinResult = twinResult]

MFindMatch ==
  /\ matching.call = "none"
  /\ matching' =
       Returned("findMatch",
                findMatch(matching.request, matching.entries, matching.strategy),
                findMatch(matching.twin.request, matching.twin.entries, matching.strategy))
  /\ UNCHANGED <<storageVars, serverVars, requestVars, componentVars>>

MFindAllMatches ==
  /\ matching.call = "none"
  /\ matching' =
       Returned("findAllMatches",
                findAllMatches(matching.request, matching.entries, matching.strategy),
                findAllMatches(matching.twin.request, matching.twin.entries,
                               matching.strategy))
  /\ UNCHANGED <<storageVars, serverVars, requestVars, componentVars>>

\* matchPath against the path of every entry, as calculateMatch calls it
MMatchPath ==
  /\ matching.call = "none"
  /\ matching.strategy \in {"smart", "fuzzy"}
  /\ matching' =
       Returned("matchPath",
                [i \in DOMAIN matching.entries |->
                   matchPath(matching.request.path, matching.entries[i].request.path,
                             matching.strategy)],
                <<>>)
  /\ UNCHANGED <<storageVars, serverVars, requestVars, componentVars>>

\* matchBody against the body of every entry
MMatchBody ==
  /\ matching.call = "none"
  /\ matching' =
       Returned("matchBody",
                [i \in DOMAIN matching.entries |->
                   matchBody(matching.request.body, matching.entries[i].request.body)],
                <<>>)
  /\ UNCHANGED <<storageVars, serverVars, requestVars, componentVars>>

MNext == MFindMatch \/ MFindAllMatches \/ MMatchPath \/ MMatchBody

SpecMatcher == MInitial /\ [][MNext]_vars

(***************************************************************************)
(* Claims about the matcher.                                               *)
(***************************************************************************)
\* the place in the list handed to the matcher of an entry it returned
PlaceOf(entry) == entry.id[2]

\* the places of the results findAllMatches returned, in the order returned
PlacesReturned(results) == {PlaceOf(results[k].entry) : k \in DOMAIN results}

\* C15: under every strategy, findMatch and findAllMatches return no entry
\* whose recorded method differs from the request's method.
C15_MethodDisqualifies ==
  /\ matching.call = "findMatch" =>
       \/ matching.result = NoEntry
       \/ matching.result.request.method = matching.request.method
  /\ matching.call = "findAllMatches" =>
       \A k \in DOMAIN matching.result :
         matching.result[k].entry.request.method = matching.request.method

\* findAllMatches returned one of two entries of the same path: the one of
\* the request's method
C15_Witness ==
  /\ matching.call = "findAllMatches" /\ Len(matching.entries) = 2
  /\ matching.entries[1].request.path = matching.entries[2].request.path
  /\ matching.entries[1].request.method # matching.entries[2].request.method
  /\ Len(matching.result) = 1

\* C16: findAllMatches returns exactly the entries that are not disqualified,
\* each with its score, highest score first and equal scores in the order of
\* the input; findMatch returns none when no entry qualifies (an empty list
\* included) and otherwise an entry of the highest score.
C16_BestMatchStableOrder ==
  LET request == matching.request
      entries == matching.entries
      score(i) == calculateMatch(request, entries[i], matching.strategy)
      qualifying == {i \in DOMAIN entries : score(i) # NoMatch}
  IN /\ matching.call = "findAllMatches" =>
          LET results == matching.result IN
          /\ Len(results) = Cardinality(qualifying)
          /\ PlacesReturned(results) = qualifying
          /\ \A k \in DOMAIN results :
               /\ results[k].entry = entries[PlaceOf(results[k].entry)]
               /\ results[k] = score(PlaceOf(results[k].entry))
          /\ \A k, l \in DOMAIN results :
               k < l =>
                 \/ results[k].score > results[l].score
                 \/ /\ results[k].score = results[l].score
                    /\ PlaceOf(results[k].entry) < PlaceOf(results[l].entry)
     /\ matching.call = "findMatch" =>
          IF qualifying = {} THEN matching.result = NoEntry
          ELSE \E i \in qualifying :
                 /\ matching.result = entries[i]
                 /\ \A j \in qualifying : score(j).score <= score(i).score

\* findAllMatches returned two entries of one score
C16_Witness ==
  /\ matching.call = "findAllMatches" /\ Len(matching.result) = 2
  /\ matching.result[1].score = matching.result[2].score
  /\ matching.result[1].entry # matching.result[2].entry

\* the two paths have as many segments, and at every place where they differ
\* wild(request segment, recorded segment) holds
SegmentsAgree(requestPath, recordedPath, wild(_, _)) ==
  /\ Len(requestPath) = Len(recordedPath)
  /\ \A i \in DOMAIN requestPath :
       requestPath[i] = recordedPath[i] \/ wild(requestPath[i], recordedPath[i])

BothIdLike(requestSegment, recordedSegment) ==
  looksLikeId(requestSegment) /\ looksLikeId(recordedSegment)

RequestIdLike(requestSegment, recordedSegment) == looksLikeId(requestSegment)

\* C17: under the smart strategy an entry of the request's method is returned
\* exactly when the paths have as many segments and at every place the
\* segments are equal or both ID-like; the path of such an entry scores 100
\* when the paths are identical and 90 otherwise.
C17_SmartPath ==
  LET request == matching.request
      entries == matching.entries
      agree(i) == SegmentsAgree(request.path, entries[i].request.path, BothIdLike)
  IN matching.strategy = "smart" =>
       /\ matching.call = "findAllMatches" =>
            \A i \in DOMAIN entries :
              entries[i].request.method = request.method =>
                (i \in PlacesReturned(matching.result) <=> agree(i))
       /\ matching.call = "matchPath" =>
            \A i \in DOMAIN entries :
              /\ matching.result[i].matches <=> agree(i)
              /\ agree(i) =>
                   matching.result[i].score =
                     IF request.path = entries[i].request.path
                     THEN 100 * ScoreScale ELSE 90 * ScoreScale

\* smart matchPath scored 90 for one entry and refused another of as many
\* segments whose segment is not ID-like
C17_Witness ==
  /\ matching.strategy = "smart" /\ matching.call = "matchPath"
  /\ Len(matching.entries) = 2
  /\ matching.result[1].matches /\ matching.result[1].score = 90 * ScoreScale
  /\ ~matching.result[2].matches
  /\ Len(matching.entries[2].request.path) = Len(matching.request.path)

\* C18: under the fuzzy strategy an entry of the request's method is
\* disqualified exactly when the segment counts differ or at some place the
\* request segment is neither equal to the recorded one nor ID-like; the path
\* of a qualifying entry scores 100 when the paths are identical and
\* (matched segments / segments) * 80 otherwise.
C18_FuzzyPath ==
  LET request == matching.request
      entries == matching.entries
      agree(i) == SegmentsAgree(request.path, entries[i].request.path, RequestIdLike)
      matched(i) ==
        Cardinality({p \in DOMAIN request.path :
                       \/ request.path[p] = entries[i].request.path[p]
                       \/ looksLikeId(request.path[p])})
  IN matching.strategy = "fuzzy" =>
       /\ matching.call = "findAllMatches" =>
            \A i \in DOMAIN entries :
              entries[i].request.method = request.method =>
                (i \in PlacesReturned(matching.result) <=> agree(i))
       /\ matching.call = "matchPath" =>
            \A i \in DOMAIN entries :
              /\ matching.result[i].matches <=> agree(i)
              /\ agree(i) =>
                   matching.result[i].score =
                     IF request.path = entries[i].request.path
                     THEN 100 * ScoreScale
                     ELSE (matched(i) * 80 * ScoreScale) \div Len(request.path)

\* fuzzy matchPath scored 80 for an entry whose segment is not ID-like where
\* the request's is
C18_Witness ==
  /\ matching.strategy = "fuzzy" /\ matching.call = "matchPath"
  /\ \E i \in DOMAIN matching.entries :
       /\ matching.result[i].matches /\ matching.result[i].score = 80 * ScoreScale
       /\ \E p \in DOMAIN matching.request.path :
            ~looksLikeId(matching.entries[i].request.path[p])
            /\ matching.entries[i].request.path[p] # matching.request.path[p]

\* the ids and scores of a list of results, place by place
IdsAndScores(results) ==
  [k \in DOMAIN results |-> <<results[k].entry.id, results[k].score>>]

\* C19: ignored headers do not influence matching: a request and its twin, or
\* a list of entries and its twin, that differ only in headers whose names are
\* in the ignored set in any letter case, get the same entry from findMatch and
\* the same entries with the same scores from findAllMatches.
C19_IgnoredHeadersIgnored ==
  /\ matching.call = "findMatch" =>
       /\ matching.result = NoEntry <=> matching.twinResult = NoEntry
       /\ matching.result # NoEntry => matching.result.id = matching.twinResult.id
  /\ matching.call = "findAllMatches" =>
       IdsAndScores(matching.result) = IdsAndScores(matching.twinResult)

\* the headers counted in the score of a request whose twin has another
\* user-agent and an Authorization header
C19_Witness ==
  /\ matching.call = "findAllMatches" /\ matching.strategy = "smart"
  /\ matching.twin.request # matching.request
  /\ "user-agent" \in DOMAIN matching.request.headers
  /\ matching.result # <<>>
  /\ \E k \in DOMAIN matching.result[1].matchedBy :
       matching.result[1].matchedBy[k] = "headers"

\* two bodies are deep-equal: the same string, both null, or objects of the
\* same members whatever the order of their keys
DeepEqual(requestBody, recordedBody) ==
  /\ requestBody.tag = recordedBody.tag
  /\ requestBody.tag # "absent"
  /\ requestBody.str = recordedBody.str
  /\ {requestBody.obj[i] : i \in DOMAIN requestBody.obj}
       = {recordedBody.obj[i] : i \in DOMAIN recordedBody.obj}

\* C20: the body adds to the score only for POST, PUT and PATCH requests; it
\* is 50 exactly when the two bodies are deep-equal, independent of key order,
\* otherwise for two objects (common top-level keys / larger key count) * 30,
\* otherwise 0.
C20_BodyScore ==
  /\ matching.call = "findAllMatches" =>
       \A k \in DOMAIN matching.result :
         (\E m \in DOMAIN matching.result[k].matchedBy :
            matching.result[k].matchedBy[m] = "body")
           => matching.request.method \in {"POST", "PUT", "PATCH"}
  /\ matching.call = "matchBody" =>
       \A i \in DOMAIN matching.entries :
         LET requestBody == matching.request.body
             recordedBody == matching.entries[i].request.body
             reqKeys == BodyKeys(requestBody)
             recKeys == BodyKeys(recordedBody)
             most == IF Cardinality(reqKeys) >= Cardinality(recKeys)
                     THEN Cardinality(reqKeys) ELSE Cardinality(recKeys)
         IN matching.result[i] =
              IF DeepEqual(requestBody, recordedBody) THEN 50 * ScoreScale
              ELSE IF requestBody.tag = "obj" /\ recordedBody.tag = "obj" /\ most > 0
              THEN (Cardinality(reqKeys \cap recKeys) * 30 * ScoreScale) \div most
              ELSE 0

(***************************************************************************)
(* HTTP: requests as Express hands them over, the target's raw responses,  *)
(* and responses as the handlers write them (the headers they set and the  *)
(* body text they send).                                                   *)
(***************************************************************************)
Modes == {"proxy", "mock", "intercept"}
NoTarget == "none"      \* config.target is undefined
Targets == {"up"}
Undefined == "undefined"

RECURSIVE PathText(_)
PathText(path) == IF path = <<>> THEN "" ELSE "/" \o path[1] \o PathText(Tail(path))

\* req.path.startsWith('/__'): the first segments of the model that do
StartsWithAdmin(path) ==
  /\ path # <<>>
  /\ path[1] \in {"__health", "__status", "__mocks", "__admin", "__chaos", "__mode",
                  "__nothing"}

HttpRequest(method, path, query, headers, body) ==
  [method |-> method, path |-> path, query |-> query, headers |-> headers, body |-> body]

\* a member of a parsed JSON body, as JSON text
BodyField(body, k) ==
  IF body.tag = "obj" /\ \E i \in DOMAIN body.obj : body.obj[i][1] = k
  THEN body.obj[CHOOSE i \in DOMAIN body.obj : body.obj[i][1] = k][2]
  ELSE Undefined

\* Array.prototype.join(', ') of the values of one header
RECURSIVE JoinValues(_)
JoinValues(values) ==
  IF Len(values) = 1 THEN values[1]
  ELSE values[1] \o ", " \o JoinValues(Tail(values))

flattenHeaders(headers) == [k \in DOMAIN headers |-> JoinValues(headers[k])]

createRequestRecord(r, id, t) ==
  RequestRecord(id, r.method, r.path, r.query, flattenHeaders(r.headers), r.body, t)

NoResponse == [none |-> TRUE]

\* res.setHeader for every recorded header whose lower-cased name is not excluded
HeadersExcept(headers, excluded) ==
  [k \in {h \in DOMAIN headers : toLowerCase(h) \notin excluded} |-> headers[k]]

\* res.status(status) ... res.json(body): JSON.stringify(undefined) sends nothing
resJson(status, headers, body) ==
  [status |-> status, headers |-> headers,
   body |-> IF body.tag = "absent" THEN "" ELSE JSONstringify(body)]

\* res.status(status) ... res.send(text)
resSend(status, headers, text) ==
  [status |-> status, headers |-> headers, body |-> text]

(***************************************************************************)
(* Interceptor (src/core/interceptor.ts): rules in Map order, each with    *)
(* its id, upper-cased method, path pattern, handler, priority, enabled.   *)
(***************************************************************************)
\* String.prototype.toUpperCase on the methods of the model
toUpperCase(method) == IF method = "get" THEN "GET" ELSE method

\* /:(\w+)/ on the segments of the model
IsParamSegment(segment) == segment \in {":id", ":name"}

\* pathToRegex(pattern).test(path) below the first segment: ':name' is
\* ([^/]+), a final '/*' is '/.*', any other '*' is the character itself
RECURSIVE pathToRegexTest(_, _)
pathToRegexTest(segs, path) ==
  IF segs = <<>> THEN path = <<>>
  ELSE IF segs = <<"*">> THEN path # <<>>
  ELSE /\ path # <<>>
       /\ IsParamSegment(segs[1]) \/ segs[1] = path[1]
       /\ pathToRegexTest(Tail(segs), Tail(path))

\* rule.pathPattern.test(path): the pattern '*' and the pattern '/*' match
\* every path
InterceptPathTest(pattern, path) ==
  pattern.star \/ pattern.segs = <<"*">> \/ pathToRegexTest(pattern.segs, path)

NoRule == [none |-> TRUE]

\* the places of the enabled rules that match the request
InterceptMatching(rules, method, path) ==
  {i \in DOMAIN rules :
     /\ rules[i].enabled
     /\ rules[i].method = "*" \/ rules[i].method = toUpperCase(method)
     /\ InterceptPathTest(rules[i].path, path)}

\* a plausible fault: the first matching rule is taken whatever its priority
InterceptFindFirstAdded(rules, method, path) ==
  LET hits == InterceptMatching(rules, method, path)
  IN IF hits = {} THEN NoRule ELSE rules[CHOOSE i \in hits : \A j \in hits : i <= j]

\* Interceptor.findMatchingRule: filter, then a stable sort by priority,
\* highest first, then the first
InterceptFindMatchingRule(rules, method, path) ==
  LET hits == InterceptMatching(rules, method, path)
  IN IF hits = {} THEN NoRule
     ELSE rules[CHOOSE i \in hits :
                  \A j \in hits :
                    /\ rules[j].priority <= rules[i].priority
                    /\ rules[j].priority = rules[i].priority => i <= j]

\* Interceptor.addRule(method, path, handler, {priority, enabled})
InterceptAddRule(icp, method, path, handler, priority, enabled) ==
  [rules |-> Append(icp.rules,
                    [id |-> icp.ruleCounter + 1, method |-> toUpperCase(method),
                     path |-> path, handler |-> handler, priority |-> priority,
                     enabled |-> enabled]),
   ruleCounter |-> icp.ruleCounter + 1]

\* Interceptor.removeRule(id): Map.delete keeps the order of the others
InterceptRemoveRule(rules, id) == SelectSeq(rules, LAMBDA rule : rule.id # id)

\* Interceptor.setRuleEnabled(id, enabled)
InterceptSetRuleEnabled(rules, id, enabled) ==
  [i \in DOMAIN rules |->
     IF rules[i].id = id THEN [rules[i] EXCEPT !.enabled = enabled] ELSE rules[i]]

(***************************************************************************)
(* ProxyEngine (src/core/proxy-engine.ts).                                 *)
(***************************************************************************)
\* config.matching.strategy as the ApiDouble constructor defaults it
MatchingStrategy == "smart"

NewEngineThrows(mode, target) == mode \in {"proxy", "intercept"} /\ target = NoTarget

\* new ProxyEngine({mode, target, ...}): proxyMiddleware is null or forwards to
\* a target; pendingRequests holds the keys of the Map
NewEngine(mode, target) ==
  [mode |-> mode, target |-> target,
   proxyMiddleware |-> IF mode \in {"proxy", "intercept"} THEN target ELSE "null",
   interceptor |-> [rules |-> <<>>, ruleCounter |-> 0],
   pendingRequests |-> {}]

\* ProxyEngine.setMode(mode, target)
EngineSetMode(engine, mode, target) ==
  IF mode \in {"proxy", "intercept"} /\ target # NoTarget
  THEN [engine EXCEPT !.mode = mode, !.target = target, !.proxyMiddleware = target]
  ELSE [engine EXCEPT !.mode = mode]

MockNotFound(requestRecord) ==
  Obj(<< <<"error", Quote("Not Found")>>,
         <<"message", Quote("No matching mock found for this request")>>,
         <<"request",
           JSONstringify(Obj(<< <<"method", Quote(requestRecord.method)>>,
                                <<"path", Quote(PathText(requestRecord.path))>> >>))>> >>)

\* the response handleMockMode writes for a matched entry
MockReplayOf(entry) ==
  resJson(entry.response.status,
          HeadersExcept(entry.response.headers,
                        {"transfer-encoding", "content-encoding", "content-length"}),
          entry.response.body)

\* a plausible fault: a miss is answered 200 with an empty object
HandleMockModeMissIsOk(requestRecord, entries) ==
  LET match == findMatch(requestRecord, entries, MatchingStrategy)
  IN IF match # NoEntry THEN MockReplayOf(match) ELSE resJson(200, EmptyMap, Obj(<<>>))

\* handleMockMode with the entries storage.list() resolved to
HandleMockMode(requestRecord, entries) ==
  LET match == findMatch(requestRecord, entries, MatchingStrategy)
  IN IF match # NoEntry THEN MockReplayOf(match)
     ELSE resJson(404, EmptyMap, MockNotFound(requestRecord))

\* handleMockMode when storage.list() rejects
MockModeError ==
  resJson(500, EmptyMap,
          Obj(<< <<"error", Quote("Internal Server Error")>>,
                 <<"message", Quote("Failed to retrieve mock response")>> >>))

ProxyNotInitializedResponse ==
  resJson(500, EmptyMap,
          Obj(<< <<"error", Quote("Configuration Error")>>,
                 <<"message", Quote("Proxy middleware not initialized")>> >>))

\* handleProxyResponse: the record of the target's response
ProxyResponseRecord(raw, t) ==
  ResponseRecord(raw.status, flattenHeaders(raw.headers),
                 IF JSONparses(raw.text) THEN JSONparse(raw.text) ELSE Str(raw.text), t)

\* handleProxyResponse: the response forwarded to the client
ProxyForwardOf(responseRecord) ==
  LET headers == HeadersExcept(responseRecord.headers,
                               {"transfer-encoding", "content-encoding"})
  IN IF responseRecord.body.tag = "str"
     THEN resSend(responseRecord.status, headers, responseRecord.body.str)
     ELSE resJson(responseRecord.status, headers, responseRecord.body)

\* what an intercept handler returns for a response; "throws" returns nothing
ApplyHandler(handler, response) ==
  CASE handler = "setStatus" -> [response EXCEPT !.status = 201]
    [] handler = "replaceBody" -> [response EXCEPT !.body = Obj(<< <<"v", "2">> >>)]
    [] OTHER -> response

HandlerThrows(handler) == handler = "throws"

\* Interceptor.applyRule: the handler's response with a new timestamp
applyRule(rule, response, t) ==
  [ApplyHandler(rule.handler, response) EXCEPT !.timestamp = t]

\* a plausible fault: a handler that throws makes the proxy answer 500
InterceptedFailClosed(engine, method, path, responseRecord, t) ==
  LET rule == IF engine.mode = "intercept"
              THEN InterceptFindMatchingRule(engine.interceptor.rules, method, path)
              ELSE NoRule
  IN IF rule = NoRule THEN [rule |-> NoRule, outcome |-> "none", record |-> responseRecord]
     ELSE IF HandlerThrows(rule.handler)
     THEN [rule |-> rule, outcome |-> "failed",
           record |-> ResponseRecord(500, EmptyMap, Obj(<<>>), t)]
     ELSE [rule |-> rule, outcome |-> "applied",
           record |-> applyRule(rule, responseRecord, t)]

\* handleProxyResponse, "Apply intercept rules in intercept mode": the rule
\* found, whether its handler returned or threw, and the response record
\* that goes on to be saved and sent
Intercepted(engine, method, path, responseRecord, t) ==
  LET rule == IF engine.mode = "intercept"
              THEN InterceptFindMatchingRule(engine.interceptor.rules, method, path)
              ELSE NoRule
  IN IF rule = NoRule THEN [rule |-> NoRule, outcome |-> "none", record |-> responseRecord]
     ELSE IF HandlerThrows(rule.handler)
     THEN [rule |-> rule, outcome |-> "failed", record |-> responseRecord]
     ELSE [rule |-> rule, outcome |-> "applied",
           record |-> applyRule(rule, responseRecord, t)]

\* a plausible fault: the response is saved before the rule is applied
SavedBeforeIntercept(upstreamRecord, interceptedRecord) == upstreamRecord

\* the response record handed to storage.save
SavedRecord(upstreamRecord, interceptedRecord) == interceptedRecord

\* createProxy, on proxyReq: this.pendingRequests.set(requestId, expressReq)
PendingSet(engine, requestId) ==
  [engine EXCEPT !.pendingRequests = @ \cup {requestId}]

\* handleProxyResponse: this.pendingRequests.delete(interceptId)
PendingDelete(engine, interceptId) ==
  [engine EXCEPT !.pendingRequests = @ \ {interceptId}]

\* a plausible fault: the error of the target is answered like a server error
InternalError ==
  resJson(500, EmptyMap,
          Obj(<< <<"error", Quote("Internal Server Error")>>,
                 <<"message", Quote("Failed to connect to target server")>>,
                 <<"details", Quote("connect ECONNREFUSED")>> >>))

\* handleProxyError
BadGateway ==
  resJson(502, EmptyMap,
          Obj(<< <<"error", Quote("Bad Gateway")>>,
                 <<"message", Quote("Failed to connect to target server")>>,
                 <<"details", Quote("connect ECONNREFUSED")>> >>))

(***************************************************************************)
(* ChaosEngine, LatencySimulator, ErrorInjector (src/chaos).               *)
(***************************************************************************)
NoConfig == [none |-> TRUE]
LatencyConfig(min, max) == [min |-> min, max |-> max]
ErrorConfig(rate, status, message) == [rate |-> rate, status |-> status, message |-> message]

\* a rule's path pattern: '*' alone, or segments of which '*' stands for '.*'
AnyPath == [star |-> TRUE, segs |-> <<>>]
PathPattern(segs) == [star |-> FALSE, segs |-> segs]

RECURSIVE GlobMatch(_, _)
GlobMatch(segs, path) ==
  IF segs = <<>> THEN path = <<>>
  ELSE IF segs[1] = "*"
  THEN \E k \in 1..Len(path) : GlobMatch(Tail(segs), SubSeq(path, k + 1, Len(path)))
  ELSE path # <<>> /\ segs[1] = path[1] /\ GlobMatch(Tail(segs), Tail(path))

\* LatencySimulator.matchPath / ErrorInjector.matchPath
ChaosMatchPath(pattern, path) ==
  pattern.star \/ pattern.segs = path \/ GlobMatch(pattern.segs, path)

\* findMatchingRule: the place of the first enabled rule for the request, or 0
ChaosFindMatchingRule(rules, method, path) ==
  LET hits == {i \in DOMAIN rules :
                 /\ rules[i].enabled
                 /\ rules[i].method = "*" \/ rules[i].method = method
                 /\ ChaosMatchPath(rules[i].path, path)}
  IN IF hits = {} THEN 0 ELSE CHOOSE i \in hits : \A j \in hits : i <= j

\* calculateDelay: min, or any whole number of min..max
calculateDelay(config) == config.min..config.max

\* LatencySimulator.getLatency: the delays it can return
getLatency(c, method, path) ==
  LET rule == ChaosFindMatchingRule(c.latencyRules, method, path)
  IN IF rule # 0 THEN calculateDelay(c.latencyRules[rule].latency)
     ELSE IF c.latencyDefault # NoConfig THEN calculateDelay(c.latencyDefault)
     ELSE {0}

\* shouldTrigger(rate): Math.random() * 100 < rate
shouldTrigger(rate) ==
  IF rate = 0 THEN {FALSE} ELSE IF rate = 100 THEN {TRUE} ELSE BOOLEAN

getStatusText(status) ==
  CASE status = 400 -> "Bad Request"
    [] status = 404 -> "Not Found"
    [] status = 500 -> "Internal Server Error"
    [] status = 502 -> "Bad Gateway"
    [] status = 503 -> "Service Unavailable"
    [] OTHER -> "Error"

NoError == [none |-> TRUE]

createError(config) ==
  [status |-> config.status,
   body |-> Obj(<< <<"error", Quote(getStatusText(config.status))>>,
                   <<"message", Quote(config.message)>>,
                   <<"injected", "true">> >>)]

\* ErrorInjector.shouldInjectError: the errors, or null, it can return
shouldInjectError(c, method, path) ==
  LET rule == ChaosFindMatchingRule(c.errorRules, method, path)
      ruleFires == IF rule = 0 THEN {FALSE} ELSE shouldTrigger(c.errorRules[rule].error.rate)
      defaultFires == IF c.errorDefault = NoConfig THEN {FALSE}
                      ELSE shouldTrigger(c.errorDefault.rate)
  IN {createError(c.errorRules[rule].error) : x \in ruleFires \cap {TRUE}}
     \cup (IF FALSE \in ruleFires
           THEN {createError(c.errorDefault) : x \in defaultFires \cap {TRUE}}
                \cup {NoError : x \in defaultFires \cap {FALSE}}
           ELSE {})

\* new ChaosEngine({enabled, latency, errorRate}); errorRate 0 stands for none given
NewChaosEngine(enabled, latency, errorRate) ==
  [enabled |-> enabled,
   latencyDefault |-> latency,
   latencyRules |-> <<>>,
   errorDefault |-> IF errorRate > 0
                    THEN ErrorConfig(errorRate, 500, "Chaos-induced server error")
                    ELSE NoConfig,
   errorRules |-> <<>>,
   stats |-> [requestsProcessed |-> 0, errorsInjected |-> 0, totalLatencyAdded |-> 0]]

\* a plausible fault: chaos that is disabled still counts and delays
ChaosApplySkipsNever(c) == FALSE

\* apply / middleware: if (!this.enabled) return
ChaosApplySkips(c) == ~c.enabled

\* a plausible fault: only the health check is kept out of chaos
ChaosGateSkipsHealthOnly(path) == path = <<"__health">>

\* the chaos gate of setupMiddleware: req.path.startsWith('/__') skips chaos
ChaosGateSkips(path) == StartsWithAdmin(path)

(***************************************************************************)
(* ApiDouble (src/core/server.ts): routes and the Express stack.           *)
(***************************************************************************)
NoStatus == 0     \* a handler result without status

toLowerCaseMethod(method) ==
  CASE method \in {"get", "GET"} -> "get"
    [] method = "POST" -> "post"
    [] OTHER -> method

\* FakerService.process on the bodies of the model: '{{query.page}}' is replaced
fakerProcess(body, query) ==
  IF body.tag # "obj" THEN body
  ELSE Obj([i \in DOMAIN body.obj |->
              IF body.obj[i][2] = Quote("{{query.page}}")
              THEN <<body.obj[i][1],
                     Quote(IF "page" \in DOMAIN query THEN query["page"] ELSE "")>>
              ELSE body.obj[i]])

\* the Express handler addRoute builds around a route handler
RouteResponse(handler, r) ==
  resJson(IF handler.status = NoStatus THEN 200 ELSE handler.status,
          handler.headers, fakerProcess(handler.body, r.query))

RouteLayer(method, path, handler) ==
  [kind |-> "route", method |-> method, path |-> path, handler |-> handler, engine |-> 0]
EngineLayer(i) ==
  [kind |-> "engine", method |-> "*", path |-> <<>>, handler |-> NoConfig, engine |-> i]

\* addRoute: app.get / post / put / patch / delete(path, handler), or nothing
addRoute(stk, method, path, handler) ==
  IF toLowerCaseMethod(method) \in {"get", "post", "put", "patch", "delete"}
  THEN Append(stk, RouteLayer(toUpperCase(method), path, handler))
  ELSE stk

RECURSIVE addRoutes(_, _)
addRoutes(stk, routes) ==
  IF routes = <<>> THEN stk
  ELSE addRoutes(addRoute(stk, routes[1].method, routes[1].path, routes[1].handler),
                 Tail(routes))

\* customRoutes.set(key, route): a present key keeps its place in the Map
RouteSet(routes, route) ==
  IF \E i \in DOMAIN routes : routes[i].method = route.method /\ routes[i].path = route.path
  THEN [i \in DOMAIN routes |->
          IF routes[i].method = route.method /\ routes[i].path = route.path
          THEN route ELSE routes[i]]
  ELSE Append(routes, route)

\* Express: the first layer of the stack that takes the request, or 0
FirstLayer(stk, r) ==
  LET takes == {i \in DOMAIN stk :
                  \/ stk[i].kind = "engine"
                  \/ (stk[i].method = r.method /\ stk[i].path = r.path)}
  IN IF takes = {} THEN 0 ELSE CHOOSE i \in takes : \A j \in takes : i <= j

\* the admin handlers setupMiddleware registers ahead of everything else
AdminHandled(r) ==
  \/ r.method = "GET" /\ r.path = <<"__health">>
  \/ r.method = "POST" /\ r.path = <<"__mode">>
  \/ r.method = "POST" /\ r.path = <<"__chaos">>

(***************************************************************************)
(* Spec: the server.  What the model draws from.                           *)
(***************************************************************************)
MaxRules == 1       \* rules added to the chaos engine, of each kind

\* the mode and target the constructor is given
InitialConfigs ==
  {[mode |-> "proxy", target |-> "up"], [mode |-> "proxy", target |-> NoTarget],
   [mode |-> "mock", target |-> NoTarget]}

\* the chaos section of the configuration
ChaosConfigs ==
  {NewChaosEngine(FALSE, NoConfig, 0), NewChaosEngine(TRUE, LatencyConfig(5, 5), 50),
   NewChaosEngine(FALSE, LatencyConfig(0, 5), 100)}

LatencyRuleInputs ==
  {[method |-> "GET", path |-> PathPattern(<<"__health">>), latency |-> LatencyConfig(5, 5),
    enabled |-> TRUE]}

ErrorRuleInputs ==
  {[method |-> "*", path |-> AnyPath, error |-> ErrorConfig(100, 503, "down"),
    enabled |-> TRUE]}

\* setMode(mode, target)
SetModeInputs ==
  {[mode |-> "mock", target |-> NoTarget], [mode |-> "proxy", target |-> NoTarget],
   [mode |-> "proxy", target |-> "up"]}

\* route(method, path, handler): the handler is the result it returns
RouteInputs ==
  {[method |-> "get", path |-> <<"hello">>,
    handler |-> [status |-> NoStatus, headers |-> EmptyMap,
                 body |-> Obj(<< <<"a", "1">>, <<"page", Quote("{{query.page}}")>> >>)]]}

ApiRequests ==
  {HttpRequest("GET", <<"api", "users">>, EmptyMap, "x-api-key" :> <<"secret">>, Obj(<<>>)),
   HttpRequest("GET", <<"hello">>, "page" :> "1", EmptyMap, Obj(<<>>))}

ModeBodies ==
  {Obj(<<>>),
   Obj(<< <<"mode", Quote("bogus")>>, <<"target", Quote("up")>> >>),
   Obj(<< <<"mode", Quote("mock")>> >>),
   Obj(<< <<"mode", Quote("proxy")>> >>),
   Obj(<< <<"mode", Quote("proxy")>>, <<"target", Quote("up")>> >>),
   Obj(<< <<"mode", Quote("intercept")>> >>)}

ModeRequests ==
  {HttpRequest("POST", <<"__mode">>, EmptyMap, EmptyMap, b) : b \in ModeBodies}

ChaosRequests ==
  {HttpRequest("POST", <<"__chaos">>, EmptyMap, EmptyMap, Obj(<< <<"enabled", e>> >>)) :
     e \in {"true", "false", Quote("yes")}}

HealthRequest == HttpRequest("GET", <<"__health">>, EmptyMap, EmptyMap, Obj(<<>>))
\* a path under /__ that no admin handler is registered for
NothingRequest == HttpRequest("GET", <<"__nothing">>, EmptyMap, EmptyMap, Obj(<<>>))

\* the requests of Spec, and those of SpecChaos
Requests == ApiRequests \cup ModeRequests \cup {HealthRequest}
GateRequests ==
  {HttpRequest("GET", <<"api", "users">>, EmptyMap, "x-api-key" :> <<"secret">>, Obj(<<>>)),
   HttpRequest("POST", <<"__mode">>, EmptyMap, EmptyMap, Obj(<< <<"mode", Quote("mock")>> >>)),
   HealthRequest, NothingRequest}
  \cup ChaosRequests

\* the random suffixes of the ids the engine gives its request records
RequestSuffixes == {5}

\* what the target answers
UpstreamResponses ==
  {[status |-> 200,
    headers |-> ("content-type" :> <<"application/json">>) @@ ("content-length" :> <<"7">>),
    text |-> "{\"v\":1}"],
   [status |-> 200,
    headers |-> ("content-type" :> <<"text/plain">>) @@ ("transfer-encoding" :> <<"chunked">>)
                @@ ("set-cookie" :> <<"a=1", "b=2">>),
    text |-> "hello"]}

NoRequest == HttpRequest("none", <<>>, EmptyMap, EmptyMap, Absent)

\* the request in flight: nothing has happened to it yet
Fresh ==
  [done |-> FALSE, by |-> "none", engine |-> 0, mode |-> "none",
   routes |-> customRoutes, switch |-> "none", stats |-> chaos.stats,
   chaosEnabled |-> chaos.enabled, stored |-> StorageCount,
   counted |-> FALSE, delayed |-> 0, injected |-> FALSE,
   listed |-> <<>>, upstream |-> FALSE, saved |-> FALSE,
   before |-> NoConfig, after |-> NoConfig, response |-> NoResponse,
   events |-> <<>>, upstreamRecord |-> NoResponse, rule |-> NoRule,
   intercept |-> "none", handed |-> NoResponse, interceptId |-> <<>>]

\* a stage of the pipeline the request has reached, or a lifecycle event
\* emitted for it, with the response it carries
Event(name, response) == [name |-> name, response |-> response]

Staged(c, names) ==
  [c EXCEPT !.events = @ \o [i \in DOMAIN names |-> Event(names[i], NoResponse)]]

Responded(c, by, response) ==
  [c EXCEPT !.done = TRUE, !.by = by, !.response = response]

\* what the storage file holds when the server is constructed: nothing, or an
\* entry an earlier run recorded
EarlierRequest ==
  createRequestRecord(
    HttpRequest("GET", <<"api", "users">>, EmptyMap, "x-api-key" :> <<"secret">>, Obj(<<>>)),
    generateId(0, 5), 0)
EarlierResponse ==
  ProxyResponseRecord(
    [status |-> 200,
     headers |-> ("content-type" :> <<"application/json">>) @@ ("content-length" :> <<"7">>),
     text |-> "{\"v\":2}"], 0)
EarlierRuns == {<<>>, <<generateId(0, 0)>>}

Init ==
  /\ storageType \in {"lowdb", "sqlite"}
  /\ dbOpen = FALSE
  /\ \E ids \in EarlierRuns :
       /\ lowEntries = IF storageType = "lowdb"
                       THEN [i \in DOMAIN ids |->
                               RecordedEntry(ids[i], EarlierRequest, EarlierResponse, 0)]
                       ELSE <<>>
       /\ sqlRows = IF storageType = "sqlite"
                    THEN [i \in DOMAIN ids |-> RowOf(ids[i], EarlierRequest, EarlierResponse, 0)]
                    ELSE <<>>
  /\ now = 0 /\ op = [kind |-> "none"] /\ journal = NewJournal(lowEntries)
  /\ \E c \in InitialConfigs : cfgMode = c.mode /\ cfgTarget = c.target
  /\ isRunning = FALSE /\ customRoutes = <<>> /\ stack = <<>> /\ engines = <<>>
  /\ chaos = NewChaosEngine(FALSE, NoConfig, 0)
  /\ lastSwitch = "none" /\ calls = [start |-> 0, route |-> 0]
  /\ pc = "idle" /\ req = NoRequest /\ cur = Fresh /\ nreq = 0
  /\ matching = NoMatching
  /\ applied = NoCall /\ interceptor = NewInterceptor /\ reloader = NewHotReload

\* SpecChaos: the server constructed with a chaos section
ChaosInit ==
  /\ storageType \in {"lowdb", "sqlite"}
  /\ dbOpen = FALSE /\ lowEntries = <<>> /\ sqlRows = <<>>
  /\ now = 0 /\ op = [kind |-> "none"] /\ journal = NewJournal(lowEntries)
  /\ \E c \in InitialConfigs : cfgMode = c.mode /\ cfgTarget = c.target
  /\ isRunning = FALSE /\ customRoutes = <<>> /\ stack = <<>> /\ engines = <<>>
  /\ chaos \in ChaosConfigs
  /\ lastSwitch = "none" /\ calls = [start |-> 0, route |-> 0]
  /\ pc = "idle" /\ req = NoRequest /\ cur = Fresh /\ nreq = 0
  /\ matching = NoMatching
  /\ applied = NoCall /\ interceptor = NewInterceptor /\ reloader = NewHotReload

(***************************************************************************)
(* Spec: the programmatic API.                                             *)
(***************************************************************************)
\* start(): storage.init(), addRoute for every custom route, a new ProxyEngine
\* behind them, listen.  The constructor of the engine may throw, and listen
\* may fail; then the server is not running.
Start ==
  /\ ~isRunning
  /\ calls.start < MaxStarts
  /\ calls' = [calls EXCEPT !.start = @ + 1]
  /\ dbOpen' = TRUE
  /\ LET withRoutes == addRoutes(stack, customRoutes) IN
     IF NewEngineThrows(cfgMode, cfgTarget)
     THEN /\ stack' = withRoutes
          /\ UNCHANGED <<engines, isRunning>>
     ELSE /\ engines' = Append(engines, NewEngine(cfgMode, cfgTarget))
          /\ stack' = Append(withRoutes, EngineLayer(Len(engines) + 1))
          /\ isRunning' = TRUE
  /\ lowEntries' = IF storageType = "lowdb" THEN journal.file ELSE lowEntries
  /\ UNCHANGED <<storageType, sqlRows, now, op, journal>>
  /\ UNCHANGED <<cfgMode, cfgTarget, customRoutes, chaos, lastSwitch, requestVars, matcherVars, componentVars>>

\* stop(): server.close, once no request is in flight
Stop ==
  /\ isRunning
  /\ pc = "idle"
  /\ isRunning' = FALSE
  /\ UNCHANGED <<storageVars, matcherVars, componentVars, requestVars>>
  /\ UNCHANGED <<cfgMode, cfgTarget, customRoutes, stack, engines, chaos, lastSwitch, calls>>

\* route(method, path, handler); live is not a field of the program: it
\* remembers that the route was registered while the server was running
RouteCall ==
  \E input \in RouteInputs :
    /\ pc # "routing"
    /\ calls.route < MaxRoutes
    /\ calls' = [calls EXCEPT !.route = @ + 1]
    /\ customRoutes' =
         RouteSet(customRoutes,
                  [method |-> toUpperCase(input.method), path |-> input.path,
                   handler |-> input.handler, live |-> isRunning])
    /\ stack' = IF isRunning
                THEN addRoute(stack, input.method, input.path, input.handler)
                ELSE stack
    /\ UNCHANGED <<storageVars, matcherVars, componentVars, requestVars>>
    /\ UNCHANGED <<cfgMode, cfgTarget, isRunning, engines, chaos, lastSwitch>>

\* ApiDouble.setMode(mode, target)
SetModeFrom(inputs) ==
  \E input \in inputs :
    LET mode == input.mode
        target == input.target
        newTarget == IF target # NoTarget THEN target ELSE cfgTarget IN
    /\ pc # "routing"
    /\ cfgMode' = mode
    /\ cfgTarget' = newTarget
    /\ engines' = IF engines = <<>> THEN engines
                  ELSE [engines EXCEPT ![Len(engines)] = EngineSetMode(@, mode, newTarget)]
    /\ lastSwitch' = "none"
    /\ UNCHANGED <<storageVars, matcherVars, componentVars, requestVars>>
    /\ UNCHANGED <<isRunning, customRoutes, stack, chaos, calls>>

SetMode == SetModeFrom(SetModeInputs)

\* enableChaos() / disableChaos()
SetChaosEnabled ==
  \E enabled \in BOOLEAN :
    /\ pc # "routing"
    /\ chaos' = [chaos EXCEPT !.enabled = enabled]
    /\ UNCHANGED <<storageVars, matcherVars, componentVars, requestVars>>
    /\ UNCHANGED <<cfgMode, cfgTarget, isRunning, customRoutes, stack, engines,
                   lastSwitch, calls>>

\* addChaosLatencyRule(method, path, config)
AddChaosLatencyRule ==
  \E rule \in LatencyRuleInputs :
    /\ pc # "routing"
    /\ Len(chaos.latencyRules) < MaxRules
    /\ chaos' = [chaos EXCEPT !.latencyRules = Append(@, rule)]
    /\ UNCHANGED <<storageVars, matcherVars, componentVars, requestVars>>
    /\ UNCHANGED <<cfgMode, cfgTarget, isRunning, customRoutes, stack, engines,
                   lastSwitch, calls>>

\* addChaosErrorRule(method, path, config)
AddChaosErrorRule ==
  \E rule \in ErrorRuleInputs :
    /\ pc # "routing"
    /\ Len(chaos.errorRules) < MaxRules
    /\ chaos' = [chaos EXCEPT !.errorRules = Append(@, rule)]
    /\ UNCHANGED <<storageVars, matcherVars, componentVars, requestVars>>
    /\ UNCHANGED <<cfgMode, cfgTarget, isRunning, customRoutes, stack, engines,
                   lastSwitch, calls>>

(***************************************************************************)
(* Spec: one request through the Express stack.                            *)
(***************************************************************************)
serverConfigVars == <<cfgMode, cfgTarget, isRunning, customRoutes, stack, engines, lastSwitch, calls>>

\* A request arrives and reaches the chaos gate.  Chaos that is enabled counts
\* it and draws its delay; the gate passes every other request straight on.
ReceiveFrom(requests) ==
  \E r \in requests :
    /\ pc = "idle"
    /\ isRunning
    /\ nreq < MaxRequests
    /\ nreq' = nreq + 1
    /\ req' = r
    /\ IF ChaosGateSkips(r.path) \/ ChaosApplySkips(chaos)
       THEN /\ cur' = Staged(Fresh, <<"chaosGate">>)
            /\ pc' = "routing"
            /\ chaos' = chaos
       ELSE \E delay \in getLatency(chaos, r.method, r.path) :
              /\ cur' = [Staged(Fresh, <<"chaosGate">>)
                           EXCEPT !.counted = TRUE, !.delayed = delay]
              /\ pc' = "chaos"
              /\ chaos' = [chaos EXCEPT !.stats.requestsProcessed = @ + 1]
    /\ UNCHANGED <<storageVars, matcherVars, componentVars, serverConfigVars>>

Receive == ReceiveFrom(Requests)
GateReceive == ReceiveFrom(GateRequests)

\* ChaosEngine.middleware after the delay: the latency is added to the
\* statistics, and an error is injected or the request goes on
ChaosResume ==
  \E error \in shouldInjectError(chaos, req.method, req.path) :
    /\ pc = "chaos"
    /\ chaos' = [chaos EXCEPT
                   !.stats.totalLatencyAdded = @ + cur.delayed,
                   !.stats.errorsInjected = IF error # NoError THEN @ + 1 ELSE @]
    /\ IF error # NoError
       THEN /\ cur' = [Responded(cur, "chaos", resJson(error.status, EmptyMap, error.body))
                         EXCEPT !.injected = TRUE]
            /\ pc' = "idle"
       ELSE /\ cur' = cur
            /\ pc' = "routing"
    /\ UNCHANGED <<storageVars, matcherVars, componentVars, serverConfigVars, req, nreq>>

\* GET /__health
AdminHealth ==
  /\ pc = "routing"
  /\ req.method = "GET" /\ req.path = <<"__health">>
  /\ cur' = Responded(cur, "admin",
                      resJson(200, EmptyMap,
                              Obj(<< <<"status", Quote("ok")>>,
                                     <<"mode", Quote(cfgMode)>> >>)))
  /\ pc' = "idle"
  /\ UNCHANGED <<storageVars, matcherVars, componentVars, serverConfigVars, chaos, req, nreq>>

ModeOf(text) == CHOOSE mode \in Modes : Quote(mode) = text
TargetOf(text) == CHOOSE target \in Targets : Quote(target) = text
ModeSnapshot(mode, target, engs) == [mode |-> mode, target |-> target, engines |-> engs]

\* POST /__mode
AdminMode ==
  /\ pc = "routing"
  /\ req.method = "POST" /\ req.path = <<"__mode">>
  /\ LET mode == BodyField(req.body, "mode")
         target == BodyField(req.body, "target")
         before == ModeSnapshot(cfgMode, cfgTarget, engines)
     IN IF mode = Undefined \/ mode \notin {Quote(m) : m \in Modes}
        THEN /\ cur' = [Responded(cur, "admin",
                          resJson(400, EmptyMap,
                            Obj(<< <<"error",
                                     Quote("Invalid mode. Use: proxy, mock, or intercept")>> >>)))
                          EXCEPT !.before = before, !.after = before]
             /\ UNCHANGED <<cfgMode, cfgTarget, engines, lastSwitch>>
        ELSE IF /\ mode \in {Quote("proxy"), Quote("intercept")}
                /\ target = Undefined
                /\ cfgTarget = NoTarget
        THEN /\ cur' = [Responded(cur, "admin",
                          resJson(400, EmptyMap,
                            Obj(<< <<"error",
                                     Quote("Target URL required for proxy/intercept mode")>> >>)))
                          EXCEPT !.before = before, !.after = before]
             /\ UNCHANGED <<cfgMode, cfgTarget, engines, lastSwitch>>
        ELSE LET newTarget == IF target # Undefined THEN TargetOf(target) ELSE cfgTarget
                 newEngines ==
                   IF engines = <<>> THEN engines
                   ELSE [engines EXCEPT
                           ![Len(engines)] = EngineSetMode(@, ModeOf(mode), newTarget)]
             IN /\ cfgMode' = ModeOf(mode)
                /\ cfgTarget' = newTarget
                /\ engines' = newEngines
                /\ lastSwitch' = ModeOf(mode)
                /\ cur' = [Responded(cur, "admin",
                             resJson(200, EmptyMap,
                               Obj(<< <<"success", "true">>,
                                      <<"mode", mode>> >>
                                   \o IF newTarget = NoTarget THEN <<>>
                                      ELSE << <<"target", Quote(newTarget)>> >>)))
                             EXCEPT !.before = before,
                                    !.after = ModeSnapshot(ModeOf(mode), newTarget, newEngines)]
  /\ pc' = "idle"
  /\ UNCHANGED <<storageVars, matcherVars, componentVars, isRunning, customRoutes, stack, chaos, calls, req, nreq>>

\* POST /__chaos
AdminChaos ==
  /\ pc = "routing"
  /\ req.method = "POST" /\ req.path = <<"__chaos">>
  /\ LET enabled == BodyField(req.body, "enabled") IN
     IF enabled \in {"true", "false"}
     THEN /\ chaos' = [chaos EXCEPT !.enabled = (enabled = "true")]
          /\ cur' = Responded(cur, "admin",
                              resJson(200, EmptyMap,
                                      Obj(<< <<"success", "true">>, <<"enabled", enabled>> >>)))
     ELSE /\ chaos' = chaos
          /\ cur' = Responded(cur, "admin",
                              resJson(400, EmptyMap,
                                      Obj(<< <<"error", Quote("enabled must be a boolean")>> >>)))
  /\ pc' = "idle"
  /\ UNCHANGED <<storageVars, matcherVars, componentVars, serverConfigVars, req, nreq>>

\* the layer of the stack that takes the request in flight, once the admin
\* handlers have passed on it
Layer == FirstLayer(stack, req)
ToStack == pc = "routing" /\ ~AdminHandled(req) /\ Layer # 0

\* a custom route takes the request
CustomRoute ==
  /\ ToStack
  /\ stack[Layer].kind = "route"
  /\ cur' = Responded(Staged(cur, <<"customRoute">>), "route",
                      RouteResponse(stack[Layer].handler, req))
  /\ pc' = "idle"
  /\ UNCHANGED <<storageVars, matcherVars, componentVars, serverVars, req, nreq>>

\* an engine in mock mode takes the request: middleware() and handleMockMode
MockReplay ==
  \E rnd \in RequestSuffixes :
    LET requestRecord == createRequestRecord(req, generateId(now, rnd), now) IN
    /\ ToStack
    /\ stack[Layer].kind = "engine"
    /\ engines[stack[Layer].engine].mode = "mock"
    /\ IF dbOpen
       THEN \E entries \in StorageList :
              cur' = [Responded(Staged(cur, <<"onRequest", "modeBranch">>), "engine",
                                HandleMockMode(requestRecord, entries))
                        EXCEPT !.engine = stack[Layer].engine, !.mode = "mock",
                               !.switch = lastSwitch, !.listed = entries]
       ELSE cur' = [Responded(Staged(cur, <<"onRequest", "modeBranch">>), "engine",
                              MockModeError)
                      EXCEPT !.engine = stack[Layer].engine, !.mode = "mock",
                             !.switch = lastSwitch]
    /\ pc' = "idle"
    /\ UNCHANGED <<storageVars, matcherVars, componentVars, serverVars, req, nreq>>

\* an engine in proxy or intercept mode takes the request and forwards it
ProxyForward ==
  \E rnd \in RequestSuffixes :
    LET engine == engines[stack[Layer].engine]
        requestId == generateId(now, rnd) IN
    /\ ToStack
    /\ stack[Layer].kind = "engine"
    /\ engine.mode \in {"proxy", "intercept"}
    /\ engine.proxyMiddleware # "null"
    /\ StorageCount < MaxEntries
    /\ engines' = [engines EXCEPT ![stack[Layer].engine] = PendingSet(@, requestId)]
    /\ cur' = [Staged(cur, <<"onRequest", "modeBranch">>)
                 EXCEPT !.by = "engine", !.engine = stack[Layer].engine,
                        !.mode = engine.mode, !.upstream = TRUE,
                        !.switch = lastSwitch, !.interceptId = requestId]
    /\ pc' = "upstream"
    /\ UNCHANGED <<storageVars, matcherVars, componentVars, req, nreq>>
    /\ UNCHANGED <<cfgMode, cfgTarget, isRunning, customRoutes, stack, chaos, lastSwitch, calls>>

\* an engine in proxy or intercept mode that has no proxy middleware
ProxyNotInitialized ==
    LET engine == engines[stack[Layer].engine] IN
    /\ ToStack
    /\ stack[Layer].kind = "engine"
    /\ engine.mode \in {"proxy", "intercept"}
    /\ engine.proxyMiddleware = "null"
    /\ cur' = [Responded(Staged(cur, <<"onRequest", "modeBranch">>), "engine",
                          ProxyNotInitializedResponse)
                 EXCEPT !.engine = stack[Layer].engine, !.mode = engine.mode,
                        !.switch = lastSwitch]
    /\ pc' = "idle"
    /\ UNCHANGED <<storageVars, matcherVars, componentVars, serverVars, req, nreq>>

\* handleProxyResponse: the target answered.  The request leaves
\* pendingRequests; in intercept mode the rule that matches is applied; the
\* record is saved, onResponse is emitted when the save resolved, and the
\* record is sent.  writeFails: the write of the storage to its file fails
\* (the disk is full, the file is locked), so that save rejects.
HandleProxyResponse(writeFails) ==
  \E raw \in UpstreamResponses, rndRequest \in RequestSuffixes, rndEntry \in RndSuffixes :
    LET requestRecord == createRequestRecord(req, generateId(now, rndRequest), now)
        upstreamRecord == ProxyResponseRecord(raw, now)
        intercepted == Intercepted(engines[cur.engine], req.method, req.path,
                                   upstreamRecord, now)
        responseRecord == intercepted.record
        saved == SavedRecord(upstreamRecord, responseRecord)
        id == generateId(now, rndEntry)
        resolves == SaveResolves(id) /\ ~writeFails
        emitted == IF resolves THEN <<Event("onResponse", responseRecord)>>
                   ELSE <<>>
    IN /\ pc = "upstream"
       /\ writeFails => ~getDbThrows
       /\ engines' = [engines EXCEPT ![cur.engine] = PendingDelete(@, cur.interceptId)]
       /\ lowEntries' = IF writeFails THEN WriteFailedLow(requestRecord, saved, id)
                        ELSE SavedLow(requestRecord, saved, id)
       /\ sqlRows' = IF writeFails THEN sqlRows ELSE SavedSql(requestRecord, saved, id)
       /\ cur' = [Responded(cur, "engine", ProxyForwardOf(responseRecord))
                    EXCEPT !.saved = resolves,
                           !.events = @ \o emitted,
                           !.upstreamRecord = upstreamRecord,
                           !.rule = intercepted.rule,
                           !.intercept = intercepted.outcome,
                           !.handed = saved]
       /\ pc' = "idle"
       /\ journal' = IF writeFails THEN [journal EXCEPT !.failed = TRUE]
                     ELSE Flushed(lowEntries')
       /\ UNCHANGED <<storageType, dbOpen, now, op, req, nreq, matcherVars, componentVars>>
       /\ UNCHANGED <<cfgMode, cfgTarget, isRunning, customRoutes, stack, chaos, lastSwitch, calls>>

UpstreamResponds == HandleProxyResponse(FALSE)

\* handleProxyError: the target could not be reached.  onError is called and
\* 502 is answered; pendingRequests is left as it is.
UpstreamFails ==
  /\ pc = "upstream"
  /\ cur' = [Responded(cur, "engine", BadGateway)
               EXCEPT !.events = Append(@, Event("onError", BadGateway))]
  /\ pc' = "idle"
  /\ UNCHANGED <<storageVars, matcherVars, componentVars, serverVars, req, nreq>>

Next ==
  \/ Start \/ Stop \/ RouteCall \/ SetMode
  \/ Receive
  \/ AdminHealth \/ AdminMode
  \/ CustomRoute \/ MockReplay \/ ProxyForward \/ ProxyNotInitialized
  \/ UpstreamResponds \/ UpstreamFails
  \/ Tick

Spec == Init /\ [][Next]_vars

\* SpecChaos: the server is started and left running; the chaos engine is
\* reconfigured while requests of every kind pass the gate
ChaosNext ==
  \/ Start
  \/ SetChaosEnabled \/ AddChaosErrorRule \/ AddChaosLatencyRule
  \/ GateReceive \/ ChaosResume
  \/ AdminHealth \/ AdminMode \/ AdminChaos
  \/ MockReplay \/ ProxyForward
  \/ UpstreamResponds \/ UpstreamFails

SpecChaos == ChaosInit /\ [][ChaosNext]_vars

(***************************************************************************)
(* SpecIntercept: the server forwarding to its target, in intercept or     *)
(* proxy mode, while intercept rules are added to its engine.              *)
(***************************************************************************)
MaxIntercepts == 2  \* calls of intercept() on one engine

\* intercept(method, path, handler)
InterceptInputs ==
  {[method |-> "get", path |-> PathPattern(<<"api", ":name">>), handler |-> "replaceBody"],
   [method |-> "*", path |-> PathPattern(<<"api", "users">>), handler |-> "throws"],
   [method |-> "get", path |-> PathPattern(<<"hello">>), handler |-> "setStatus"]}

InterceptInit ==
  /\ storageType \in {"lowdb", "sqlite"}
  /\ dbOpen = FALSE /\ lowEntries = <<>> /\ sqlRows = <<>>
  /\ now = 0 /\ op = [kind |-> "none"] /\ journal = NewJournal(lowEntries)
  /\ cfgMode \in {"intercept", "proxy"} /\ cfgTarget = "up"
  /\ isRunning = FALSE /\ customRoutes = <<>> /\ stack = <<>> /\ engines = <<>>
  /\ chaos = NewChaosEngine(FALSE, NoConfig, 0)
  /\ lastSwitch = "none" /\ calls = [start |-> 0, route |-> 0]
  /\ pc = "idle" /\ req = NoRequest /\ cur = Fresh /\ nreq = 0
  /\ matching = NoMatching
  /\ applied = NoCall /\ interceptor = NewInterceptor /\ reloader = NewHotReload

\* ApiDouble.intercept(method, path, handler): throws before the first
\* start(); adds the rule to the interceptor of this.engine
InterceptCall ==
  \E input \in InterceptInputs :
    /\ pc # "routing"
    /\ engines # <<>>
    /\ engines[Len(engines)].interceptor.ruleCounter < MaxIntercepts
    /\ engines' =
         [engines EXCEPT ![Len(engines)].interceptor =
            InterceptAddRule(@, input.method, input.path, input.handler, 0, TRUE)]
    /\ UNCHANGED <<storageVars, matcherVars, componentVars, requestVars>>
    /\ UNCHANGED <<cfgMode, cfgTarget, isRunning, customRoutes, stack, chaos, lastSwitch, calls>>

InterceptReceive == ReceiveFrom(ApiRequests)

InterceptNext ==
  \/ Start \/ InterceptCall
  \/ InterceptReceive
  \/ ProxyForward
  \/ UpstreamResponds \/ UpstreamFails

SpecIntercept == InterceptInit /\ [][InterceptNext]_vars

(***************************************************************************)
(* SpecForward: the server forwarding to its target while the mode is      *)
(* switched between proxy and intercept, rules are added, the target       *)
(* fails to answer and the storage fails to write.                         *)
(***************************************************************************)
\* setMode(mode) between the forwarding modes
ForwardModeInputs ==
  {[mode |-> "intercept", target |-> NoTarget], [mode |-> "proxy", target |-> NoTarget]}

ForwardSetMode == SetModeFrom(ForwardModeInputs)

UpstreamRespondsWriteFails == HandleProxyResponse(TRUE)

ForwardNext ==
  \/ Start \/ InterceptCall \/ ForwardSetMode
  \/ InterceptReceive
  \/ ProxyForward
  \/ UpstreamResponds \/ UpstreamRespondsWriteFails \/ UpstreamFails

SpecForward == InterceptInit /\ [][ForwardNext]_vars

(***************************************************************************)
(* Claims about the server.                                                *)
(***************************************************************************)
\* the record the engine builds of the request in flight; its id and its
\* timestamp play no part in matching
InFlight == createRequestRecord(req, generateId(0, 5), 0)

\* the request was answered by an engine in mock mode
Replayed == cur.done /\ cur.by = "engine" /\ cur.mode = "mock"

\* the recorded request is the request in flight
SameRequest(entry) ==
  /\ entry.request.method = InFlight.method
  /\ entry.request.path = InFlight.path
  /\ entry.request.query = InFlight.query
  /\ entry.request.headers = InFlight.headers
  /\ entry.request.body = InFlight.body

\* C1: when a request is answered in mock mode and storage holds exactly one
\* entry of its method and path, recorded from the same request, the upstream
\* is not contacted and the response has the recorded status, the recorded
\* headers without transfer-encoding and content-encoding (content-length
\* aside, which the framework computes from the body sent), and the recorded
\* body: a string body as it is, any other body as its JSON text.
C1_RecordThenReplay ==
  Replayed =>
    \A i \in DOMAIN cur.listed :
      LET entry == cur.listed[i] IN
      ( /\ SameRequest(entry)
        /\ \A j \in DOMAIN cur.listed :
             ( /\ cur.listed[j].request.method = req.method
               /\ cur.listed[j].request.path = req.path ) => j = i )
      => /\ ~cur.upstream
         /\ cur.response.status = entry.response.status
         /\ HeadersExcept(cur.response.headers, {"content-length"})
              = HeadersExcept(entry.response.headers,
                              {"transfer-encoding", "content-encoding", "content-length"})
         /\ cur.response.body = IF entry.response.body.tag = "str"
                                THEN entry.response.body.str
                                ELSE JSONstringify(entry.response.body)

RoutesFor == {i \in DOMAIN cur.routes :
                cur.routes[i].method = req.method /\ cur.routes[i].path = req.path}

\* C3: in every mode, a non-admin request that a registered custom route
\* matches (and chaos let through) is answered by that route's handler, with
\* status 200 when the handler gives none, and reaches neither the replay
\* lookup nor the upstream.
C3_CustomRoutePrecedence ==
  (cur.done /\ ~StartsWithAdmin(req.path) /\ ~cur.injected /\ RoutesFor # {}) =>
    /\ cur.by = "route"
    /\ ~cur.upstream
    /\ \A i \in RoutesFor : cur.response = RouteResponse(cur.routes[i].handler, req)

\* C4: a request that arrives after route() registered, on the running
\* server, a route of its method and path is answered by that route's handler
\* and not by the mode pipeline.
C4_LateRouteVisible ==
  (cur.done /\ ~cur.injected /\ \E i \in RoutesFor : cur.routes[i].live) =>
    /\ cur.by = "route"
    /\ \A i \in RoutesFor : cur.response = RouteResponse(cur.routes[i].handler, req)

C6_ModeSwitch ==
  /\ (cur.done /\ cur.by = "admin" /\ req.path = <<"__mode">>) =>
       LET mode == BodyField(req.body, "mode")
           target == BodyField(req.body, "target")
           rejected ==
             \/ mode \notin {Quote(m) : m \in Modes}
             \/ /\ mode \in {Quote("proxy"), Quote("intercept")}
                /\ target = Undefined
                /\ cur.before.target = NoTarget
       IN /\ (cur.response.status = 400) <=> rejected
          /\ rejected => cur.after = cur.before
          /\ ~rejected => cur.after.mode = ModeOf(mode)
  /\ (cur.by = "engine" /\ cur.switch # "none") => cur.mode = cur.switch

\* C9: in mock mode, when several entries share the highest score for the
\* request, the response served is the replay of one that no other of them
\* was created after.
C9_TiesServeMostRecent ==
  (Replayed /\ dbOpen) =>
    LET matches == findAllMatches(InFlight, cur.listed, MatchingStrategy)
        top == {i \in DOMAIN matches : matches[i].score = matches[1].score}
    IN matches # <<>> =>
         \E i \in top :
           /\ \A j \in top : matches[j].entry.createdAt <= matches[i].entry.createdAt
           /\ cur.response = MockReplayOf(matches[i].entry)

(***************************************************************************)
(* SpecEngine: a ChaosEngine driven through its own API.  apply is taken   *)
(* as one step: no other call is made while it waits out the delay.        *)
(***************************************************************************)
MaxApplies == 2     \* calls of apply() that chaos counts
MaxErrorRules == 2  \* error rules added to one ErrorInjector

\* Math.round(n / d) for d > 0: halves round up
MathRound(n, d) == (2 * n + d) \div (2 * d)

\* LatencySimulator.setDefault / addRule: the check that throws
LatencyThrows(config) == config # NoConfig /\ config.min > config.max

\* ErrorInjector.validateConfig: the checks that throw
validateConfigThrows(config) ==
  \/ config.rate < 0 \/ config.rate > 100
  \/ config.status < 400 \/ config.status > 599

\* ChaosEngine.getStats
getStats(c) ==
  [enabled |-> c.enabled,
   requestsProcessed |-> c.stats.requestsProcessed,
   errorsInjected |-> c.stats.errorsInjected,
   totalLatencyAdded |-> c.stats.totalLatencyAdded,
   averageLatency |-> IF c.stats.requestsProcessed > 0
                      THEN MathRound(c.stats.totalLatencyAdded, c.stats.requestsProcessed)
                      ELSE 0]

\* the configs the calls are given: valid ones, min > max, and a negative min
EngineLatencyInputs ==
  {LatencyConfig(0, 1), LatencyConfig(2, 1), LatencyConfig(0 - 1, 0)}

\* setErrorRate(rate, status): rate 0 clears the default
EngineErrorRates == {[rate |-> 0, status |-> 500], [rate |-> 100, status |-> 500],
                     [rate |-> 101, status |-> 500]}

\* addErrorRule(method, path, config)
EngineErrorRules ==
  {[method |-> "get", path |-> PathPattern(<<"users", ":id">>),
    error |-> ErrorConfig(100, 503, "down")],
   [method |-> "*", path |-> PathPattern(<<"users", "*">>),
    error |-> ErrorConfig(0, 404, "never")],
   [method |-> "*", path |-> AnyPath, error |-> ErrorConfig(100, 399, "bad")]}

\* the requests chaos is applied to
EngineCalls ==
  {[method |-> "GET", path |-> <<"users", "42">>],
   [method |-> "POST", path |-> <<"users", "42">>],
   [method |-> "GET", path |-> <<"orders">>]}

\* new ChaosEngine(config)
EngineInitial ==
  /\ storageType = "lowdb" /\ dbOpen = FALSE /\ lowEntries = <<>> /\ sqlRows = <<>>
  /\ now = 0 /\ op = [kind |-> "none"] /\ journal = NewJournal(<<>>)
  /\ cfgMode = "mock" /\ cfgTarget = "none" /\ isRunning = FALSE
  /\ customRoutes = <<>> /\ stack = <<>> /\ engines = <<>>
  /\ lastSwitch = "none" /\ calls = [start |-> 0, route |-> 0]
  /\ pc = "idle" /\ req = [none |-> TRUE] /\ cur = [none |-> TRUE] /\ nreq = 0
  /\ matching = NoMatching /\ interceptor = NewInterceptor /\ reloader = NewHotReload
  /\ applied = NoCall
  /\ chaos \in {NewChaosEngine(FALSE, NoConfig, 0), NewChaosEngine(TRUE, NoConfig, 0)}

EngineFrame ==
  UNCHANGED <<storageVars, matcherVars, requestVars, interceptor, reloader,
              cfgMode, cfgTarget, isRunning, customRoutes, stack, engines, lastSwitch, calls>>

\* enable() / disable()
EngineSetEnabled ==
  \E enabled \in BOOLEAN :
    /\ chaos' = [chaos EXCEPT !.enabled = enabled]
    /\ applied' = [call |-> "setEnabled", threw |-> FALSE]
    /\ EngineFrame

\* setLatency(config)
EngineSetLatency ==
  \E config \in EngineLatencyInputs \cup {NoConfig} :
    /\ chaos' = IF LatencyThrows(config) THEN chaos
                ELSE [chaos EXCEPT !.latencyDefault = config]
    /\ applied' = [call |-> "setLatency", threw |-> LatencyThrows(config)]
    /\ EngineFrame

\* addLatencyRule(method, path, config)
EngineAddLatencyRule ==
  \E config \in EngineLatencyInputs :
    /\ Len(chaos.latencyRules) < MaxRules
    /\ chaos' = IF LatencyThrows(config) THEN chaos
                ELSE [chaos EXCEPT !.latencyRules =
                        Append(@, [method |-> "GET", path |-> PathPattern(<<"orders">>),
                                   latency |-> config, enabled |-> TRUE])]
    /\ applied' = [call |-> "addLatencyRule", threw |-> LatencyThrows(config)]
    /\ EngineFrame

\* setErrorRate(rate, status)
EngineSetErrorRate ==
  \E input \in EngineErrorRates :
    LET config == ErrorConfig(input.rate, input.status, "Chaos-induced error")
        throws == input.rate # 0 /\ validateConfigThrows(config)
    IN /\ chaos' = IF throws THEN chaos
                   ELSE [chaos EXCEPT !.errorDefault =
                           IF input.rate = 0 THEN NoConfig ELSE config]
       /\ applied' = [call |-> "setErrorRate", threw |-> throws]
       /\ EngineFrame

\* addErrorRule(method, path, config)
EngineAddErrorRule ==
  \E rule \in EngineErrorRules :
    /\ Len(chaos.errorRules) < MaxErrorRules
    /\ chaos' = IF validateConfigThrows(rule.error) THEN chaos
                ELSE [chaos EXCEPT !.errorRules =
                        Append(@, [method |-> toUpperCase(rule.method), path |-> rule.path,
                                   error |-> rule.error, enabled |-> TRUE])]
    /\ applied' = [call |-> "addErrorRule", threw |-> validateConfigThrows(rule.error)]
    /\ EngineFrame

\* getErrorInjector().setRuleEnabled(id, enabled)
EngineSetRuleEnabled ==
  \E i \in DOMAIN chaos.errorRules, enabled \in BOOLEAN :
    /\ chaos' = [chaos EXCEPT !.errorRules[i].enabled = enabled]
    /\ applied' = [call |-> "setRuleEnabled", threw |-> FALSE]
    /\ EngineFrame

\* apply(method, path)
EngineApply ==
  \E r \in EngineCalls :
    IF ChaosApplySkips(chaos)
    THEN /\ chaos' = chaos
         /\ applied' = [call |-> "apply", threw |-> FALSE, method |-> r.method,
                        path |-> r.path, delayed |-> 0, error |-> NoError]
         /\ EngineFrame
    ELSE \E delay \in getLatency(chaos, r.method, r.path),
            error \in shouldInjectError(chaos, r.method, r.path) :
           /\ chaos.stats.requestsProcessed < MaxApplies
           /\ chaos' = [chaos EXCEPT
                          !.stats.requestsProcessed = @ + 1,
                          !.stats.totalLatencyAdded = @ + delay,
                          !.stats.errorsInjected = IF error # NoError THEN @ + 1 ELSE @]
           /\ applied' = [call |-> "apply", threw |-> FALSE, method |-> r.method,
                          path |-> r.path, delayed |-> delay, error |-> error]
           /\ EngineFrame

\* getErrorInjector().findMatchingRule(method, path): the place of the rule, or 0
EngineFindMatchingRule ==
  \E r \in EngineCalls :
    /\ chaos' = chaos
    /\ applied' = [call |-> "findMatchingRule", threw |-> FALSE, method |-> r.method,
                   path |-> r.path,
                   found |-> ChaosFindMatchingRule(chaos.errorRules, r.method, r.path)]
    /\ EngineFrame

\* getStats()
EngineGetStats ==
  /\ chaos' = chaos
  /\ applied' = [call |-> "getStats", threw |-> FALSE, stats |-> getStats(chaos)]
  /\ EngineFrame

EngineNext ==
  \/ EngineSetEnabled \/ EngineSetLatency \/ EngineAddLatencyRule
  \/ EngineSetErrorRate \/ EngineAddErrorRule \/ EngineSetRuleEnabled
  \/ EngineApply \/ EngineFindMatchingRule \/ EngineGetStats

SpecEngine == EngineInitial /\ [][EngineNext]_vars

(***************************************************************************)
(* Claims about the chaos engine.                                          *)
(***************************************************************************)
\* C21: when an enabled error rule matches the request, the first such rule
\* alone decides the outcome and the default error config is not consulted: a
\* rule of rate 0 means no error even if the default rate is 100; the default
\* applies only when no enabled rule matches.
C21_RuleBeforeDefault ==
  (applied.call = "apply" /\ chaos.enabled) =>
    LET rule == ChaosFindMatchingRule(chaos.errorRules, applied.method, applied.path)
        decides == IF rule # 0 THEN chaos.errorRules[rule].error ELSE chaos.errorDefault
    IN IF decides = NoConfig THEN applied.error = NoError
       ELSE /\ applied.error \in {NoError, createError(decides)}
            /\ decides.rate = 0 => applied.error = NoError
            /\ decides.rate = 100 => applied.error = createError(decides)

LatencyValid(config) == 0 <= config.min /\ config.min <= config.max

ErrorValid(config) ==
  /\ 0 <= config.rate /\ config.rate <= 100
  /\ 400 <= config.status /\ config.status <= 599

ConfigsValid(c) ==
  /\ c.latencyDefault # NoConfig => LatencyValid(c.latencyDefault)
  /\ \A i \in DOMAIN c.latencyRules : LatencyValid(c.latencyRules[i].latency)
  /\ c.errorDefault # NoConfig => ErrorValid(c.errorDefault)
  /\ \A i \in DOMAIN c.errorRules : ErrorValid(c.errorRules[i].error)

\* C22: after any sequence of setLatency, addLatencyRule, setErrorRate and
\* addErrorRule calls every config the engine holds is valid (0 <= min <= max,
\* 0 <= rate <= 100, 400 <= status <= 599), and a call that raises an error
\* leaves the defaults and the rules unchanged.
C22_ConfigsValid ==
  [][/\ ConfigsValid(chaos')
     /\ applied'.threw => chaos' = chaos]_vars

\* a segment of a pattern that is a ':name'
IsParam(segment) == segment \in {":id", ":name"}

\* the pattern matches the path as the rule syntax is described: ':name' is
\* any one segment, '*' matches freely, a literal segment must be equal
RECURSIVE PatternAgrees(_, _)
PatternAgrees(segs, path) ==
  IF segs = <<>> THEN path = <<>>
  ELSE IF segs[1] = "*"
  THEN \E k \in 1..Len(path) : PatternAgrees(Tail(segs), SubSeq(path, k + 1, Len(path)))
  ELSE /\ path # <<>>
       /\ IsParam(segs[1]) \/ segs[1] = path[1]
       /\ PatternAgrees(Tail(segs), Tail(path))

\* C23: in a chaos rule a ':name' segment of the path pattern matches any
\* single segment at its place, '*' matches freely and every literal segment
\* must be equal: findMatchingRule returns the first enabled rule of the
\* request's method whose pattern matches in that sense.
C23_ParamSegmentsMatch ==
  applied.call = "findMatchingRule" =>
    LET rules == chaos.errorRules
        hits == {i \in DOMAIN rules :
                   /\ rules[i].enabled
                   /\ rules[i].method = "*" \/ rules[i].method = applied.method
                   /\ rules[i].path.star \/ PatternAgrees(rules[i].path.segs, applied.path)}
    IN IF hits = {} THEN applied.found = 0
       ELSE applied.found \in hits /\ \A j \in hits : applied.found <= j

\* C24: in every stats snapshot averageLatency is totalLatencyAdded /
\* requestsProcessed when requestsProcessed > 0, and 0 otherwise.
C24_ChaosMean ==
  applied.call = "getStats" =>
    IF applied.stats.requestsProcessed > 0
    THEN applied.stats.averageLatency * applied.stats.requestsProcessed
           = applied.stats.totalLatencyAdded
    ELSE applied.stats.averageLatency = 0

MaxInterceptRules == 3  \* calls of addRule on one Interceptor

Priorities == {0, 1}

InterceptorPaths == {PathPattern(<<"users", ":id">>), PathPattern(<<"users", "*">>)}

\* the handlers are named by what they do to the response
InterceptHandlers == {"setStatus"}

InterceptorCalls ==
  {[method |-> "GET", path |-> <<"users", "42">>],
   [method |-> "POST", path |-> <<"users", "42">>],
   [method |-> "GET", path |-> <<"orders">>]}

InterceptorInitial ==
  /\ storageType = "lowdb" /\ dbOpen = FALSE /\ lowEntries = <<>> /\ sqlRows = <<>>
  /\ now = 0 /\ op = [kind |-> "none"] /\ journal = NewJournal(<<>>)
  /\ ServerIdle
  /\ matching = NoMatching /\ applied = NoCall
  /\ interceptor = NewInterceptor /\ reloader = NewHotReload

InterceptorFrame ==
  UNCHANGED <<storageVars, serverVars, requestVars, matcherVars, applied, reloader>>

InterceptorAddRule ==
  \E method \in {"get", "*"}, path \in InterceptorPaths, handler \in InterceptHandlers,
     priority \in Priorities :
    /\ interceptor.ruleCounter < MaxInterceptRules
    /\ interceptor' =
         InterceptAddRule(interceptor, method, path, handler, priority, TRUE)
           @@ [call |-> "addRule"]
    /\ InterceptorFrame

InterceptorRemoveRule ==
  \E id \in 1..interceptor.ruleCounter :
    /\ interceptor' =
         [rules |-> InterceptRemoveRule(interceptor.rules, id),
          ruleCounter |-> interceptor.ruleCounter, call |-> "removeRule"]
    /\ InterceptorFrame

InterceptorSetRuleEnabled ==
  \E id \in 1..interceptor.ruleCounter, enabled \in BOOLEAN :
    /\ interceptor' =
         [rules |-> InterceptSetRuleEnabled(interceptor.rules, id, enabled),
          ruleCounter |-> interceptor.ruleCounter, call |-> "setRuleEnabled"]
    /\ InterceptorFrame

InterceptorFindMatchingRule ==
  \E r \in InterceptorCalls :
    /\ interceptor' =
         [rules |-> interceptor.rules, ruleCounter |-> interceptor.ruleCounter,
          call |-> "findMatchingRule", method |-> r.method, path |-> r.path,
          found |-> InterceptFindMatchingRule(interceptor.rules, r.method, r.path)]
    /\ InterceptorFrame

InterceptorNext ==
  \/ InterceptorAddRule \/ InterceptorRemoveRule \/ InterceptorSetRuleEnabled
  \/ InterceptorFindMatchingRule

SpecInterceptor == InterceptorInitial /\ [][InterceptorNext]_vars

\* C26: among the enabled rules whose method ('*' or equal) and path pattern
\* match the request, findMatchingRule returns the one of strictly greatest
\* priority, and among rules of equal greatest priority the one added first;
\* a disabled or removed rule is never returned.
C26_InterceptPriority ==
  interceptor.call = "findMatchingRule" =>
    LET rules == interceptor.rules
        found == interceptor.found
        hits == {i \in DOMAIN rules :
                   /\ rules[i].enabled
                   /\ rules[i].method \in {"*", interceptor.method}
                   /\ InterceptPathTest(rules[i].path, interceptor.path)}
    IN IF hits = {} THEN found = NoRule
       ELSE \E i \in hits :
              /\ found = rules[i]
              /\ \A j \in hits : rules[j].priority <= rules[i].priority
              /\ \A j \in hits : rules[j].priority = rules[i].priority => i <= j

\* the rule returned was added after an enabled matching rule of lower
\* priority, on an interceptor from which a rule was removed
C26_Witness ==
  /\ interceptor.call = "findMatchingRule"
  /\ interceptor.found # NoRule
  /\ Len(interceptor.rules) = 2
  /\ interceptor.ruleCounter = 3
  /\ interceptor.found = interceptor.rules[2]
  /\ interceptor.rules[1].enabled
  /\ interceptor.rules[1].priority < interceptor.rules[2].priority
  /\ InterceptPathTest(interceptor.rules[1].path, interceptor.path)

(***************************************************************************)
(* Claims about interception and the lifecycle events.                     *)
(***************************************************************************)
\* the response of the entry the request in flight had saved
LastStored == StoredEntries[Len(StoredEntries)].response

\* the responses onResponse was emitted with for the request in flight
OnResponses ==
  SelectSeq(cur.events, LAMBDA e : e.name = "onResponse")

\* C27: in intercept mode, when a rule matches a forwarded request, its
\* handler is applied to the upstream response before the response is
\* persisted and before it is sent: the persisted response and the response
\* sent to the client are the same transformed response.
C27_InterceptBeforeSaveAndSend ==
  (cur.done /\ cur.intercept = "applied") =>
    LET transformed ==
          applyRule(cur.rule, cur.upstreamRecord, cur.upstreamRecord.timestamp)
    IN /\ cur.mode = "intercept"
       /\ cur.response = ProxyForwardOf(transformed)
       /\ cur.handed = transformed
       /\ cur.saved => LastStored = transformed

\* a rule replaced the body of the upstream response, and the response was
\* saved
C27_Witness ==
  /\ cur.done /\ cur.intercept = "applied" /\ cur.saved
  /\ cur.rule.handler = "replaceBody"
  /\ LastStored.body # cur.upstreamRecord.body
  /\ cur.response.body = JSONstringify(LastStored.body)

EventsAt(name) == {i \in DOMAIN cur.events : cur.events[i].name = name}

\* C29: for every non-admin request onRequest is emitted exactly once and
\* before the chaos gate, so also for requests that end in a chaos-injected
\* error or are served by a custom route; the stages chaos gate, custom
\* routes, mode branch run in that order.
C29_OnRequestBeforeChaos ==
  (cur.done /\ ~StartsWithAdmin(req.path)) =>
    /\ Cardinality(EventsAt("onRequest")) = 1
    /\ \A i \in EventsAt("onRequest"), j \in EventsAt("chaosGate") : i < j
    /\ \A i \in EventsAt("chaosGate"),
          j \in EventsAt("customRoute") \cup EventsAt("modeBranch") : i < j
    /\ EventsAt("customRoute") = {} \/ EventsAt("modeBranch") = {}

\* the request in flight was answered by the mode branch: a replay hit or
\* miss, or a forwarded response
AnsweredByModeBranch ==
  /\ cur.done /\ cur.by = "engine"
  /\ cur.response \notin {BadGateway, MockModeError, ProxyNotInitializedResponse}

\* C30: for every non-admin request answered by the mode branch,
\* onResponse(request, response) is emitted exactly once with the response
\* that is sent, also in mock mode and when persisting the recording fails.
C30_OnResponseOnce ==
  AnsweredByModeBranch =>
    /\ Len(OnResponses) = 1
    /\ OnResponses[1].response.status = cur.response.status
    /\ cur.mode # "mock" => cur.response = ProxyForwardOf(OnResponses[1].response)

(***************************************************************************)
(* Claims about failures while forwarding.                                 *)
(***************************************************************************)
\* the request was forwarded and the target answered
Forwarded == cur.done /\ cur.by = "engine" /\ cur.upstream /\ cur.upstreamRecord # NoResponse

\* the response record after interception, as the fields of cur tell it
Transformed ==
  IF cur.intercept = "applied"
  THEN applyRule(cur.rule, cur.upstreamRecord, cur.upstreamRecord.timestamp)
  ELSE cur.upstreamRecord

\* C31: when storage.save fails for a forwarded request, the client still
\* receives the status and body of the upstream response, transformed when a
\* rule applied, and storage holds no more entries than before the request.
C31_SaveFailureNotFatal ==
  (Forwarded /\ ~cur.saved) =>
    /\ cur.response = ProxyForwardOf(Transformed)
    /\ cur.response.status = Transformed.status
    /\ StorageCount = cur.stored

\* the request was forwarded and the target could not be reached
UpstreamFailed == cur.done /\ cur.by = "engine" /\ cur.upstream /\ cur.upstreamRecord = NoResponse

OnErrors == SelectSeq(cur.events, LAMBDA e : e.name = "onError")

\* C32: when the target cannot be reached, the client receives 502 with the
\* body {error: 'Bad Gateway', message, details}, onError is called once,
\* onResponse is not called, and storage is as it was before the request.
C32_BadGateway ==
  UpstreamFailed =>
    /\ cur.response.status = 502
    /\ cur.response.body =
         JSONstringify(Obj(<< <<"error", Quote("Bad Gateway")>>,
                              <<"message", Quote("Failed to connect to target server")>>,
                              <<"details", Quote("connect ECONNREFUSED")>> >>))
    /\ Len(OnErrors) = 1
    /\ OnResponses = <<>>
    /\ ~cur.saved
    /\ StorageCount = cur.stored

\* a request forwarded in intercept mode whose target could not be reached
C32_Witness ==
  UpstreamFailed /\ cur.mode = "intercept" /\ cur.response.status = 502

\* C33: the response of a forwarded request is handled in the mode the
\* engine read when the request entered it: an intercept rule is applied to
\* it exactly when that mode was intercept and a rule matches the request,
\* whatever switches between proxy and intercept were made while the request
\* awaited the target.
C33_ModeAtEntry ==
  [][(pc = "upstream" /\ cur'.done /\ cur'.upstreamRecord # NoResponse) =>
       LET rule == InterceptFindMatchingRule(engines[cur.engine].interceptor.rules,
                                             req.method, req.path)
       IN (cur'.intercept # "none") <=> (cur.mode = "intercept" /\ rule # NoRule)]_vars

\* C38: pendingRequests of an engine holds only the request that awaits the
\* target through it: it is empty whenever no request is in flight.
C38_PendingOnlyInFlight ==
  \A i \in DOMAIN engines :
    engines[i].pendingRequests \subseteq
      (IF pc = "upstream" /\ cur.engine = i THEN {cur.interceptId} ELSE {})

(***************************************************************************)
(* Claims about the lifecycle of the server.                               *)
(***************************************************************************)
\* C34: when stop() completes, no request is in flight and the storage has
\* released its handle: it is closed.
C34_StopReleasesStorage ==
  [][(isRunning /\ ~isRunning') => (pc = "idle" /\ ~dbOpen')]_vars

\* C35: whenever the mode of the server's engine is proxy or intercept the
\* engine has a forwarder, and no request that engine takes is answered 500
\* 'Proxy middleware not initialized'.
C35_ForwarderConfigured ==
  /\ engines # <<>> =>
       LET engine == engines[Len(engines)]
       IN engine.mode \in {"proxy", "intercept"} => engine.proxyMiddleware # "null"
  /\ (cur.done /\ cur.by = "engine" /\ cur.engine = Len(engines))
       => cur.response # ProxyNotInitializedResponse

\* C36: across stop(), start() and retried starts, a request that reaches
\* the mode pipeline is taken by the engine start() created last, in the
\* mode the last switch (or the constructor) set.
C36_CurrentEngineOnly ==
  [][(pc = "routing" /\ cur'.by = "engine") =>
       (cur'.engine = Len(engines) /\ cur'.mode = cfgMode)]_vars

(***************************************************************************)
(* SpecFlight: a ChaosEngine with several requests in flight.  apply and   *)
(* the middleware count the request, then await the latency sleep; while a *)
(* request sleeps other requests enter and resetStats, enable and disable  *)
(* are called.  applied.flights is not a field of the program: it keeps,   *)
(* for every request that entered, its delay, whether it still sleeps, and *)
(* whether the requestsProcessed of the present this.stats counted it.     *)
(***************************************************************************)
MaxFlights == 3     \* requests that enter the enabled chaos engine

FlightCall == [method |-> "GET", path |-> <<"users", "42">>]

FlightInitial ==
  /\ storageType = "lowdb" /\ dbOpen = FALSE /\ lowEntries = <<>> /\ sqlRows = <<>>
  /\ now = 0 /\ op = [kind |-> "none"] /\ journal = NewJournal(<<>>)
  /\ cfgMode = "mock" /\ cfgTarget = "none" /\ isRunning = FALSE
  /\ customRoutes = <<>> /\ stack = <<>> /\ engines = <<>>
  /\ lastSwitch = "none" /\ calls = [start |-> 0, route |-> 0]
  /\ pc = "idle" /\ req = [none |-> TRUE] /\ cur = [none |-> TRUE] /\ nreq = 0
  /\ matching = NoMatching /\ interceptor = NewInterceptor /\ reloader = NewHotReload
  /\ applied = [call |-> "none", flights |-> <<>>]
  /\ chaos \in {NewChaosEngine(TRUE, LatencyConfig(1, 2), 50),
                 NewChaosEngine(FALSE, LatencyConfig(0, 1), 100)}

\* apply / middleware up to `await this.latency.apply(...)`
FlightEnter ==
  IF ChaosApplySkips(chaos)
  THEN /\ chaos' = chaos
       /\ applied' = [applied EXCEPT !.call = "skipped"]
       /\ EngineFrame
  ELSE \E delay \in getLatency(chaos, FlightCall.method, FlightCall.path) :
         /\ Len(applied.flights) < MaxFlights
         /\ chaos' = [chaos EXCEPT !.stats.requestsProcessed = @ + 1]
         /\ applied' = [call |-> "enter",
                        flights |-> Append(applied.flights,
                                           [delay |-> delay, sleeping |-> TRUE,
                                            counted |-> TRUE, injected |-> FALSE])]
         /\ EngineFrame

\* apply / middleware after the await: the delay is added to the statistics
\* and the error, when one is injected, is counted
FlightResume ==
  \E i \in DOMAIN applied.flights,
     error \in shouldInjectError(chaos, FlightCall.method, FlightCall.path) :
    /\ applied.flights[i].sleeping
    /\ chaos' = [chaos EXCEPT
                   !.stats.totalLatencyAdded = @ + applied.flights[i].delay,
                   !.stats.errorsInjected = IF error # NoError THEN @ + 1 ELSE @]
    /\ applied' = [call |-> "resume",
                   flights |-> [applied.flights EXCEPT
                                  ![i].sleeping = FALSE,
                                  ![i].injected = (error # NoError)]]
    /\ EngineFrame

\* resetStats(): this.stats is a new object of zeroes
FlightResetStats ==
  /\ chaos' = [chaos EXCEPT !.stats = [requestsProcessed |-> 0, errorsInjected |-> 0,
                                       totalLatencyAdded |-> 0]]
  /\ applied' = [call |-> "resetStats",
                 flights |-> [i \in DOMAIN applied.flights |->
                                [applied.flights[i] EXCEPT !.counted = FALSE]]]
  /\ EngineFrame

\* enable() / disable()
FlightSetEnabled ==
  \E enabled \in BOOLEAN :
    /\ chaos' = [chaos EXCEPT !.enabled = enabled]
    /\ applied' = [applied EXCEPT !.call = "setEnabled"]
    /\ EngineFrame

FlightNext == FlightEnter \/ FlightResume \/ FlightResetStats \/ FlightSetEnabled

SpecFlight == FlightInitial /\ [][FlightNext]_vars

\* the requests the present requestsProcessed counted, and their delays
CountedFlights == {i \in DOMAIN applied.flights : applied.flights[i].counted}

RECURSIVE DelaySum(_)
DelaySum(flights) ==
  IF flights = {} THEN 0
  ELSE LET i == CHOOSE j \in flights : TRUE
       IN applied.flights[i].delay + DelaySum(flights \ {i})

\* C37: in every state of the chaos engine, with requests suspended in the
\* latency sleep while resetStats, enable and disable are called,
\* errorsInjected is at most requestsProcessed, and once the requests that
\* requestsProcessed counts have passed the gate totalLatencyAdded is the
\* sum of their delays.
C37_StatsConsistent ==
  /\ chaos.stats.requestsProcessed = Cardinality(CountedFlights)
  /\ chaos.stats.errorsInjected <= chaos.stats.requestsProcessed
  /\ (\A i \in CountedFlights : ~applied.flights[i].sleeping)
       => chaos.stats.totalLatencyAdded = DelaySum(CountedFlights)

(***************************************************************************)
(* A claim that relates the matching strategies.                           *)
(***************************************************************************)
\* the places of the entries findAllMatches returns for the request and the
\* list of the state under a strategy
ReturnedUnder(strategy) ==
  PlacesReturned(findAllMatches(matching.request, matching.entries, strategy))

\* C39: every entry findAllMatches returns under exact it returns under
\* smart, and every entry it returns under smart it returns under fuzzy.
C39_StrategiesOrdered ==
  matching.call = "findAllMatches" =>
    LET returned == PlacesReturned(matching.result) IN
    /\ returned = ReturnedUnder(matching.strategy)
    /\ matching.strategy = "exact" => returned \subseteq ReturnedUnder("smart")
    /\ matching.strategy = "smart" =>
         /\ ReturnedUnder("exact") \subseteq returned
         /\ returned \subseteq ReturnedUnder("fuzzy")
    /\ matching.strategy = "fuzzy" => ReturnedUnder("smart") \subseteq returned

\* findAllMatches under smart returned an entry that exact refuses and
\* refused one that fuzzy returns
C39_Witness ==
  /\ matching.call = "findAllMatches" /\ matching.strategy = "smart"
  /\ PlacesReturned(matching.result) # {}
  /\ ReturnedUnder("exact") = {}
  /\ ReturnedUnder("fuzzy") # PlacesReturned(matching.result)

(***************************************************************************)
(* SpecReload: a HotReloadService.  The watcher reports changes, the       *)
(* debounce timeout fires, reload() awaits the loader, and stop() awaits   *)
(* watcher.close(); these steps interleave.  The watcher reports nothing   *)
(* once close() has been called on it.                                     *)
(***************************************************************************)
MaxChanges == 3     \* change events the watcher reports

\* clearTimeout(handle): a handle that fired or was cleared is ignored
clearTimeout(timers, handle) == timers \ {handle}

ReloadFrame == UNCHANGED <<storageVars, serverVars, requestVars, matcherVars, applied, interceptor>>

\* start()
ReloadStart ==
  /\ reloader.watcher = "null"
  /\ reloader' = [reloader EXCEPT !.watcher = "open", !.stats.watching = TRUE,
                                  !.stopped = FALSE]
  /\ ReloadFrame

\* the watcher emits change or add: handleChange(path)
ReloadHandleChange ==
  LET handle == reloader.changes + 1 IN
  /\ reloader.watcher = "open"
  /\ reloader.changes < MaxChanges
  /\ reloader' = [reloader EXCEPT
                    !.timers = (IF reloader.debounceTimer # 0
                                THEN clearTimeout(@, reloader.debounceTimer) ELSE @)
                               \cup {handle},
                    !.debounceTimer = handle,
                    !.changes = @ + 1,
                    !.bursts = IF reloader.timers = {} THEN @ + 1 ELSE @]
  /\ ReloadFrame

\* the debounce timeout fires: reload() runs up to `await loadConfigFile`
ReloadTimerFires ==
  \E handle \in reloader.timers :
    /\ reloader' = [reloader EXCEPT !.timers = @ \ {handle}, !.loading = @ + 1,
                                    !.started = @ + 1]
    /\ ReloadFrame

\* reload() after the await: a config was loaded, and onReload is called
\* with it, or none of the paths could be loaded
ReloadCompletes ==
  \E loaded \in BOOLEAN :
    /\ reloader.loading > 0
    /\ reloader' = IF loaded
                   THEN [reloader EXCEPT !.loading = @ - 1,
                                         !.stats.reloadCount = @ + 1,
                                         !.invoked = @ + 1,
                                         !.late = @ \/ reloader.stopped]
                   ELSE [reloader EXCEPT !.loading = @ - 1]
    /\ ReloadFrame

\* stop() from `clearTimeout` on: what it does once the watcher is closed,
\* or at once when there is no watcher
StopCleared(r) ==
  [r EXCEPT !.watcher = "null",
            !.timers = IF r.debounceTimer # 0 THEN clearTimeout(@, r.debounceTimer) ELSE @,
            !.cancelled = IF r.debounceTimer \in r.timers THEN @ + 1 ELSE @,
            !.debounceTimer = 0,
            !.stats.watching = FALSE,
            !.closing = FALSE,
            !.stopped = TRUE]

\* stop() up to `await this.watcher.close()`, or to its end without a watcher
ReloadStop ==
  /\ ~reloader.closing
  /\ reloader' = IF reloader.watcher = "null" THEN StopCleared(reloader)
                 ELSE [reloader EXCEPT !.watcher = "closing", !.closing = TRUE]
  /\ ReloadFrame

\* watcher.close() has resolved: stop() runs to its end
ReloadStopResolves ==
  /\ reloader.closing
  /\ reloader' = StopCleared(reloader)
  /\ ReloadFrame

ReloadNext ==
  \/ ReloadStart \/ ReloadHandleChange \/ ReloadTimerFires \/ ReloadCompletes
  \/ ReloadStop \/ ReloadStopResolves

ReloadInitial ==
  /\ storageType = "lowdb" /\ dbOpen = FALSE /\ lowEntries = <<>> /\ sqlRows = <<>>
  /\ now = 0 /\ op = [kind |-> "none"] /\ journal = NewJournal(<<>>)
  /\ ServerIdle
  /\ matching = NoMatching /\ applied = NoCall
  /\ interceptor = NewInterceptor /\ reloader = NewHotReload

SpecReload == ReloadInitial /\ [][ReloadNext]_vars

\* C40: the change events that arrive while a debounce timeout is scheduled
\* cause one reload together with the event that scheduled it: at most one
\* timeout is scheduled, and every burst of events has started one reload,
\* has its timeout scheduled, or was cancelled by stop(); and onReload is
\* never invoked once stop() has resolved.
C40_DebouncedAndQuietAfterStop ==
  /\ Cardinality(reloader.timers) <= 1
  /\ reloader.started + Cardinality(reloader.timers) + reloader.cancelled = reloader.bursts
  /\ ~reloader.late
====
